---- MODULE Spec2Model ----
(***************************************************************************)
(* A model of rust-mir-checker's driver and diagnostics store.             *)
(*                                                                         *)
(*   SpecDiag    the diagnostics store of one NumericalAnalysis: the       *)
(*               checker inserts per-function vectors of diagnostics,      *)
(*               then emit_diagnostics sorts, filters and finalises them.  *)
(*   SpecCause   the conversion of an assertion kind to a DiagnosticCause. *)
(*   SpecDriver  the binary: main, the compiler callbacks, the exit code.  *)
(*   SpecRun     one call of NumericalAnalysis::run, step by step.         *)
(*   SpecTypes   the type resolvers of the TypeVisitor.                    *)
(*   SpecUtils   the summary keys, mangled names and concreteness tests.   *)
(*   SpecFix     the fixed-point iteration of analyze_function.            *)
(*   SpecCmp     Diagnostic::compare on three diagnostics.                 *)
(***************************************************************************)
EXTENDS Integers, Sequences, FiniteSets, TLC

VARIABLES
    \* ---- NumericalAnalysis / GlobalContext (numerical_analysis.rs, diagnostics.rs)
    analysis_options,   \* context.analysis_options: deny_warnings, suppressed_warnings, memory_safety_only
    diagnostics_for,    \* context.diagnostics_for.map: DefId -> Vec<Diagnostic>
    emitted,            \* the diagnostics on which emit() was called, in call order
    cancelled,          \* the diagnostics on which cancel() was called, in call order
    dropped,            \* the diagnostics whose builder was dropped without emit() or cancel()
    created,            \* every diagnostic handed to DiagnosticsForDefId::insert so far
    phase,              \* "idle", "new", "iterator", "promoted", "fixpoint", "checked", "analysis", "emitted", "panicked"
    \* ---- From<&AssertKind> for DiagnosticCause (diagnostics.rs)
    cmp_args,           \* the diagnostics x, y, z handed to Diagnostic::compare
    cmp_result,         \* what compare returned for (x, y), (y, x), (y, z), (x, z)
    assert_kinds,       \* the assertion kinds converted so far, in order
    causes,             \* the cause each conversion returned, in order
    \* ---- the binary and the compiler callbacks (mir-checker.rs, callback.rs)
    pc,                 \* "start", "compiler", "configured", "analysed", "returned", "exit", "panicked"
    env_var,            \* env::var_os("MIR_CHECKER_BE_RUSTC")
    raw_args,           \* the command line, args::raw_args
    rustc_args,         \* the argument list handed to RunCompiler::new
    parsed_args,        \* the argument list handed to AnalysisOption::from_args
    callbacks,          \* the callbacks handed to RunCompiler::new
    callback_options,   \* MirCheckerCallbacks.analysis_options
    source_name,        \* MirCheckerCallbacks.source_name
    compiler_result,    \* what run_compiler.run() returned
    exit_code,          \* the code handed to process::exit
    context_news,       \* the calls of GlobalContext::new
    runs,               \* the calls of NumericalAnalysis::run
    compilation,        \* what after_analysis returned to the compiler
    \* ---- NumericalAnalysis::run (numerical_analysis.rs)
    domain_type,        \* context.analysis_options.domain_type
    entry_point,        \* context.entry_point
    analyze_calls,      \* the calls of analyze_function: its def_id and its abstract domain
    run_result,         \* what run returned
    wto_visitor,        \* the WtoFixPointIterator of analyze_function, while it iterates
    \* ---- TypeVisitor (type_visitor.rs) and the type utilities (utils.rs)
    type_visitor,       \* the fields of the TypeVisitor the resolvers read
    ty_call,            \* the last call of a TypeVisitor function: its name and arguments
    ty_result,          \* what that call returned, or Panic
    util_call,          \* the last call of a function of utils.rs: its name and arguments
    util_result         \* what that call returned

diagVars == <<analysis_options, diagnostics_for, emitted, cancelled, dropped, created, phase>>
causeVars == <<assert_kinds, causes>>
cmpVars == <<cmp_args, cmp_result>>
driverVars ==
    <<pc, env_var, raw_args, rustc_args, parsed_args, callbacks, callback_options,
      source_name, compiler_result, exit_code, context_news, runs>>
runVars == <<compilation, domain_type, entry_point, analyze_calls, run_result, wto_visitor>>
pureVars == <<type_visitor, ty_call, ty_result, util_call, util_result>>
vars == <<diagVars, causeVars, cmpVars, driverVars, runVars, pureVars>>

----------------------------------------------------------------------------
(* Bounds *)

\* the number of diagnostics the checker creates in one run
MaxDiags == 2
\* the number of assertions whose kind is converted
MaxAsserts == 2
\* the number of arguments on the command line
MaxArgs == 2

----------------------------------------------------------------------------
(* Data *)

\* function identifiers
DefIds == {"f", "g"}

\* enum DiagnosticCause
DiagnosticCause ==
    {"Bitwise", "Arithmetic", "Assembly", "Comparison", "DivZero",
     "Memory", "Panic", "Index", "Other"}

\* the causes of the diagnostics the checker creates in this model
CheckerCauses == {"Arithmetic", "Memory"}

\* severity of a diagnostic builder
Levels == {"Warning", "Error"}

\* the checker builds its diagnostics as warnings; deny_warnings promotes them
CheckerLevels == {"Warning"}

\* MultiSpan::primary_spans() of the diagnostics the checker creates: sequences
\* of spans, a span being an integer ordered as Span::cmp orders spans
PrimarySpans == {<<1>>, <<1, 2>>, <<2>>}

\* Option<T>: None is <<>>, Some(x) is <<x>>
None == <<>>
Some(x) == <<x>>
IsSome(o) == o # <<>>
Unwrap(o) == o[1]

\* struct Diagnostic { builder, is_memory_safety, cause }; id is the identity of the
\* builder, span and level are the builder's primary spans and severity
Diagnostic(id, span, level, mem, c) ==
    [id |-> id, span |-> span, level |-> level, is_memory_safety |-> mem, cause |-> c]

\* struct AnalysisOption, the three fields emit_diagnostics reads
AnalysisOption ==
    [deny_warnings : BOOLEAN,
     suppressed_warnings : {None} \cup {Some(S) : S \in SUBSET CheckerCauses},
     memory_safety_only : BOOLEAN]

EmptyMap == [k \in {} |-> <<>>]

RECURSIVE SeqToSet(_)
SeqToSet(s) == IF s = <<>> THEN {} ELSE {Head(s)} \cup SeqToSet(Tail(s))

Ids(s) == [i \in 1..Len(s) |-> s[i].id]

Count(s, id) == Cardinality({i \in 1..Len(s) : s[i].id = id})

\* the diagnostics held in a map
StoredDiags(map) == UNION {SeqToSet(map[k]) : k \in DOMAIN map}

\* every order in which a HashMap can yield the keys of map
IterationOrders(map) ==
    {o \in [1..Cardinality(DOMAIN map) -> DOMAIN map] :
        \A i, j \in DOMAIN o : i # j => o[i] # o[j]}

----------------------------------------------------------------------------
(* Diagnostic *)

\* <[Span] as PartialOrd>::partial_cmp: lexicographic, a proper prefix is smaller
RECURSIVE SliceCmp(_, _)
SliceCmp(a, b) ==
    IF a = <<>> /\ b = <<>> THEN "Equal"
    ELSE IF a = <<>> THEN "Less"
    ELSE IF b = <<>> THEN "Greater"
    ELSE IF Head(a) < Head(b) THEN "Less"
    ELSE IF Head(a) > Head(b) THEN "Greater"
    ELSE SliceCmp(Tail(a), Tail(b))

\* compare without its second branch
compare_NoGreater(x, y) ==
    IF SliceCmp(x.span, y.span) = "Less" THEN "Less"
    ELSE "Equal"

\* Diagnostic::compare
compare(x, y) ==
    IF SliceCmp(x.span, y.span) = "Less" THEN "Less"
    ELSE IF SliceCmp(x.span, y.span) = "Greater" THEN "Greater"
    ELSE "Equal"

\* Diagnostic::upgrade_to_error
upgrade_to_error(d) == [d EXCEPT !.level = "Error"]

\* SortInsert that leaves the vector in the order of arrival
SortInsert_Unsorted(sorted, d) == Append(sorted, d)

\* Vec::sort_by(Diagnostic::compare): a stable sort.  SortInsert puts d behind
\* every element of the sorted prefix that does not compare Greater than d.
RECURSIVE SortInsert(_, _)
SortInsert(sorted, d) ==
    IF sorted = <<>> THEN <<d>>
    ELSE IF compare(sorted[Len(sorted)], d) = "Greater"
         THEN Append(SortInsert(SubSeq(sorted, 1, Len(sorted) - 1), d), sorted[Len(sorted)])
         ELSE Append(sorted, d)

RECURSIVE sort_by(_)
sort_by(s) ==
    IF s = <<>> THEN <<>>
    ELSE SortInsert(sort_by(SubSeq(s, 1, Len(s) - 1)), s[Len(s)])

----------------------------------------------------------------------------
(* NumericalAnalysis::emit_diagnostics *)

\* map.into_values().flatten(), for the order in which the map yields its values
RECURSIVE Flatten(_, _)
Flatten(map, order) ==
    IF order = <<>> THEN <<>>
    ELSE map[Head(order)] \o Flatten(map, Tail(order))

\* MapDeny without the upgrade
MapDeny_NoUpgrade(s, opts) == s

\* .map(|d| if deny_warnings { d.upgrade_to_error() } else { d })
MapDeny(s, opts) ==
    [i \in 1..Len(s) |-> IF opts.deny_warnings THEN upgrade_to_error(s[i]) ELSE s[i]]

\* SuppressKept with a filter that lets memory-safety diagnostics through
SuppressKept_MemoryExempt(s, opts) ==
    IF IsSome(opts.suppressed_warnings)
    THEN SelectSeq(s, LAMBDA d : d.cause \notin Unwrap(opts.suppressed_warnings)
                                    \/ d.is_memory_safety)
    ELSE s

\* the suppressed_warnings filter: the diagnostics kept in res
SuppressKept(s, opts) ==
    IF IsSome(opts.suppressed_warnings)
    THEN SelectSeq(s, LAMBDA d : d.cause \notin Unwrap(opts.suppressed_warnings))
    ELSE s

\* the suppressed_warnings filter: the diagnostics it cancels
SuppressCancelled(s, opts) ==
    IF IsSome(opts.suppressed_warnings)
    THEN SelectSeq(s, LAMBDA d : d.cause \in Unwrap(opts.suppressed_warnings))
    ELSE <<>>

\* the memory_safety_only filter: the diagnostics it emits
MemoryEmitted(res, opts) ==
    IF opts.memory_safety_only
    THEN SelectSeq(res, LAMBDA d : d.is_memory_safety)
    ELSE res

\* MemoryCancelled without the else branch that cancels
MemoryCancelled_NoCancel(res, opts) == <<>>

\* the memory_safety_only filter: the diagnostics it cancels
MemoryCancelled(res, opts) ==
    IF opts.memory_safety_only
    THEN SelectSeq(res, LAMBDA d : ~d.is_memory_safety)
    ELSE <<>>

\* the vector that is sorted: collect() then sort_by
SortedDiagnostics(map, order, opts) == sort_by(MapDeny(Flatten(map, order), opts))

\* the calls of emit() the whole function makes, in order
EmitCalls(map, order, opts) ==
    MemoryEmitted(SuppressKept(SortedDiagnostics(map, order, opts), opts), opts)

\* the calls of cancel() the whole function makes, in order
CancelCalls(map, order, opts) ==
    SuppressCancelled(SortedDiagnostics(map, order, opts), opts)
        \o MemoryCancelled(SuppressKept(SortedDiagnostics(map, order, opts), opts), opts)

\* fn emit_diagnostics(self): consumes the context, the map with it
emit_diagnostics ==
    /\ phase = "analysis"
    /\ \E order \in IterationOrders(diagnostics_for) :
        /\ emitted' = emitted \o EmitCalls(diagnostics_for, order, analysis_options)
        /\ cancelled' = cancelled \o CancelCalls(diagnostics_for, order, analysis_options)
    /\ diagnostics_for' = EmptyMap
    /\ phase' = "emitted"
    /\ UNCHANGED <<analysis_options, dropped, created, causeVars, cmpVars, pureVars, driverVars, runVars>>

----------------------------------------------------------------------------
(* DiagnosticsForDefId *)

\* HashMap::insert(id, diags): the entry of id becomes diags
MapInsert(map, id, diags) ==
    [k \in DOMAIN map \cup {id} |-> IF k = id THEN diags ELSE map[k]]

\* the value HashMap::insert returns and the statement drops
Replaced(map, id) == IF id \in DOMAIN map THEN map[id] ELSE <<>>

\* the vectors the checker can hand to insert: fresh diagnostics, numbered in
\* the order of their creation
RECURSIVE NewDiagVecs(_, _)
NewDiagVecs(first, n) ==
    IF n = 0 THEN {<<>>}
    ELSE {<<Diagnostic(first, sp, lv, m, c)>> \o rest :
            sp \in PrimarySpans, lv \in CheckerLevels, m \in BOOLEAN, c \in CheckerCauses,
            rest \in NewDiagVecs(first + 1, n - 1)}

\* DiagnosticsForDefId::insert.  A builder that is dropped without emit() or
\* cancel() makes the host's destructor panic, which ends the run.
insert(id, diags) ==
    /\ phase = "analysis"
    /\ diagnostics_for' = MapInsert(diagnostics_for, id, diags)
    /\ dropped' = dropped \o Replaced(diagnostics_for, id)
    /\ created' = created \o diags
    /\ phase' = IF Replaced(diagnostics_for, id) # <<>> THEN "panicked" ELSE "analysis"
    /\ UNCHANGED <<analysis_options, emitted, cancelled, causeVars, cmpVars, pureVars, driverVars, runVars>>

\* the checker stores the diagnostics it buffered for one function
Insert ==
    \E id \in DefIds, n \in 0..(MaxDiags - Len(created)) :
        \E diags \in NewDiagVecs(Len(created) + 1, n) : insert(id, diags)

----------------------------------------------------------------------------
(* impl From<&mir::AssertKind<O>> for DiagnosticCause *)

\* enum mir::BinOp, the operators the match names
BinOps ==
    {"Add", "Sub", "Mul", "Div", "Rem", "AddUnchecked", "SubUnchecked", "MulUnchecked",
     "Shr", "Shl", "BitXor", "BitAnd", "BitOr", "ShlUnchecked", "ShrUnchecked",
     "Eq", "Lt", "Le", "Ne", "Ge", "Gt", "Cmp", "Offset"}

\* enum mir::AssertKind; Overflow carries the operator
AssertKinds ==
    {<<"BoundsCheck">>, <<"OverflowNeg">>, <<"DivisionByZero">>, <<"RemainderByZero">>,
     <<"ResumedAfterReturn">>, <<"ResumedAfterPanic">>, <<"MisalignedPointerDereference">>}
        \cup {<<"Overflow", op>> : op \in BinOps}

\* FromBinOp with Offset in the arithmetic arm
FromBinOp_OffsetArithmetic(bin_op) ==
    IF bin_op \in {"Add", "Sub", "Mul", "Div", "Rem",
                   "AddUnchecked", "SubUnchecked", "MulUnchecked", "Offset"}
    THEN "Arithmetic"
    ELSE IF bin_op \in {"Shr", "Shl", "BitXor", "BitAnd", "BitOr",
                        "ShlUnchecked", "ShrUnchecked"}
    THEN "Bitwise"
    ELSE "Comparison"

\* the inner match of the Overflow arm
FromBinOp(bin_op) ==
    IF bin_op \in {"Add", "Sub", "Mul", "Div", "Rem",
                   "AddUnchecked", "SubUnchecked", "MulUnchecked"}
    THEN "Arithmetic"
    ELSE IF bin_op \in {"Shr", "Shl", "BitXor", "BitAnd", "BitOr",
                        "ShlUnchecked", "ShrUnchecked"}
    THEN "Bitwise"
    ELSE IF bin_op \in {"Eq", "Lt", "Le", "Ne", "Ge", "Gt", "Cmp"}
    THEN "Comparison"
    ELSE "Index"

\* fn from(assert_kind: &mir::AssertKind<O>) -> DiagnosticCause
from(kind) ==
    IF kind[1] = "BoundsCheck" THEN "Index"
    ELSE IF kind[1] = "Overflow" THEN FromBinOp(kind[2])
    ELSE IF kind[1] = "OverflowNeg" THEN "Arithmetic"
    ELSE IF kind[1] \in {"DivisionByZero", "RemainderByZero"} THEN "DivZero"
    ELSE "Other"

\* the checker converts the kind of the next assertion it visits
From ==
    /\ Len(assert_kinds) < MaxAsserts
    /\ \E kind \in AssertKinds :
        /\ assert_kinds' = Append(assert_kinds, kind)
        /\ causes' = Append(causes, from(kind))
    /\ UNCHANGED <<diagVars, cmpVars, driverVars, runVars, pureVars>>

----------------------------------------------------------------------------
(* Strings *)

\* str::contains(pat): pat occurs in s as a contiguous run of characters
str_contains(s, pat) ==
    \E i \in 1..(Len(s) - Len(pat) + 1) : SubSeq(s, i, i + Len(pat) - 1) = pat

LIBCORE == <<"/", "l", "i", "b", "c", "o", "r", "e">>
COMPILER_BUILTINS ==
    <<"/", "c", "o", "m", "p", "i", "l", "e", "r", "_", "b", "u", "i", "l", "t", "i", "n", "s">>
LIBALLOC == <<"/", "l", "i", "b", "a", "l", "l", "o", "c">>
MACRO == <<"/", "m", "a", "c", "r", "o">>
LIBC == <<"/", "l", "i", "b", "c">>

\* the local paths of the source files the compiler is run on
SourceNames ==
    {<<"s", "r", "c", "/", "m", "a", "i", "n", ".", "r", "s">>,   \* src/main.rs
     <<"/", "r", "/", "l", "i", "b", "c", "o", "r", "e", "/", "l", "i", "b", ".", "r", "s">>,   \* /r/libcore/lib.rs
     <<"/", "r", "/", "c", "o", "m", "p", "i", "l", "e", "r", "_", "b", "u", "i", "l", "t", "i", "n", "s", "/", "m", ".", "r", "s">>,   \* /r/compiler_builtins/m.rs
     <<"/", "r", "/", "l", "i", "b", "a", "l", "l", "o", "c", "/", "v", "e", "c", ".", "r", "s">>,   \* /r/liballoc/vec.rs
     <<"/", "r", "/", "l", "i", "b", "c", "/", "l", "i", "b", ".", "r", "s">>,   \* /r/libc/lib.rs
     <<"/", "p", "/", "m", "a", "c", "r", "o", "s", "/", "m", ".", "r", "s">>,   \* /p/macros/m.rs
     <<"l", "i", "b", "c", "/", "l", "i", "b", ".", "r", "s">>,   \* libc/lib.rs
     <<"/", "p", "/", "l", "i", "b", "c", "u", "r", "l", ".", "r", "s">>,   \* /p/libcurl.rs
     <<"/", "p", "/", "l", "i", "b", "/", "c", "o", "r", "e", ".", "r", "s">>,   \* /p/lib/core.rs
     <<"/", "p", "/", "l", "i", "b", ".", "r", "s">>}   \* /p/lib.rs

----------------------------------------------------------------------------
(* bin/mir-checker.rs: main *)

\* pub const EXIT_SUCCESS / EXIT_FAILURE
EXIT_SUCCESS == 0
EXIT_FAILURE == 1

ALWAYS_ENCODE_MIR == "-Zalways_encode_mir"
PANIC_ABORT == "-Cpanic=abort"
SYSROOT_FLAG == "--sysroot"

\* the words of a command line
ArgTokens == {ALWAYS_ENCODE_MIR, PANIC_ABORT, SYSROOT_FLAG, "main.rs"}

RECURSIVE SeqsUpTo(_, _)
SeqsUpTo(S, n) ==
    IF n = 0 THEN {<<>>}
    ELSE SeqsUpTo(S, n - 1) \cup {Append(s, x) : s \in {t \in SeqsUpTo(S, n - 1) : Len(t) = n - 1}, x \in S}

ArgLists == SeqsUpTo(ArgTokens, MaxArgs)

\* the values of MIR_CHECKER_BE_RUSTC in the environment
EnvValues == {None, Some("1"), Some("0")}

\* utils::compile_time_sysroot()
Sysroots == {None, Some("/sysroot")}

\* rustc_args.iter().any(|e| e == flag)
HasArg(args, flag) == \E i \in 1..Len(args) : args[i] = flag

\* the --sysroot block of main
WithSysroot(args, sysroot) ==
    IF IsSome(sysroot) /\ ~HasArg(args, SYSROOT_FLAG)
    THEN args \o <<SYSROOT_FLAG, Unwrap(sysroot)>>
    ELSE args

\* WithAlwaysEncodeMir without the test for a flag the user passed
WithAlwaysEncodeMir_Unconditional(args) == Append(args, ALWAYS_ENCODE_MIR)

\* the -Zalways_encode_mir block of main
WithAlwaysEncodeMir(args) ==
    IF ~HasArg(args, ALWAYS_ENCODE_MIR) THEN Append(args, ALWAYS_ENCODE_MIR) ELSE args

\* rustc_args.push("-Cpanic=abort")
WithPanicAbort(args) == Append(args, PANIC_ABORT)

\* option::AnalysisOption::from_args: the options the analyzer flags of the
\* command line stand for
from_args(args) == AnalysisOption

\* BeRustc with the test inverted
BeRustc_Inverted == ~IsSome(env_var)

\* env::var_os("MIR_CHECKER_BE_RUSTC").is_some()
BeRustc == IsSome(env_var)

\* args::raw_args(&early_dcx)? returns an error: the closure returns Err
main_raw_args_error ==
    /\ pc = "start"
    /\ compiler_result' = Some("Err")
    /\ pc' = "returned"
    /\ UNCHANGED <<env_var, raw_args, rustc_args, parsed_args, callbacks, callback_options,
                   source_name, exit_code, context_news, runs, diagVars, causeVars, cmpVars, pureVars, runVars>>

\* main, the branch that behaves like the real rustc, up to run_compiler.run()
main_be_rustc ==
    /\ pc = "start"
    /\ BeRustc
    /\ \E sysroot \in Sysroots : rustc_args' = Some(WithSysroot(raw_args, sysroot))
    /\ callbacks' = "TimePassesCallbacks"
    /\ pc' = "compiler"
    /\ UNCHANGED <<env_var, raw_args, parsed_args, callback_options, source_name,
                   compiler_result, exit_code, context_news, runs, diagVars, causeVars, cmpVars, pureVars, runVars>>

\* main, the analyzer branch, up to run_compiler.run()
main_analyzer ==
    /\ pc = "start"
    /\ ~BeRustc
    /\ \E sysroot \in Sysroots :
        LET args == WithPanicAbort(WithAlwaysEncodeMir(WithSysroot(raw_args, sysroot)))
        IN  /\ parsed_args' = Some(args)
            /\ \E options \in from_args(args) : callback_options' = Some(options)
            /\ rustc_args' = Some(args)
    /\ callbacks' = "MirCheckerCallbacks"
    /\ source_name' = <<>>
    /\ pc' = "compiler"
    /\ UNCHANGED <<env_var, raw_args, compiler_result, exit_code, context_news, runs,
                   diagVars, causeVars, cmpVars, pureVars, runVars>>

\* the tail of main: the exit code chosen from the closure's result
exit ==
    /\ pc = "returned"
    /\ exit_code' = Some(IF compiler_result = Some("Ok") THEN EXIT_SUCCESS ELSE EXIT_FAILURE)
    /\ pc' = "exit"
    /\ UNCHANGED <<env_var, raw_args, rustc_args, parsed_args, callbacks, callback_options,
                   source_name, compiler_result, context_news, runs, diagVars, causeVars, cmpVars, pureVars, runVars>>

----------------------------------------------------------------------------
(* The host compiler, run_compiler.run() *)

\* the compiler reports an error: run() returns Err
compiler_error ==
    /\ pc \in {"compiler", "configured", "analysed"}
    /\ compiler_result' = Some("Err")
    /\ pc' = "returned"
    /\ UNCHANGED <<env_var, raw_args, rustc_args, parsed_args, callbacks, callback_options,
                   source_name, exit_code, context_news, runs, diagVars, causeVars, cmpVars, pureVars, runVars>>

\* the compilation completes: run() returns Ok
compiler_finish ==
    /\ \/ pc = "analysed"
       \/ pc = "compiler" /\ callbacks = "TimePassesCallbacks"
    /\ compiler_result' = Some("Ok")
    /\ pc' = "returned"
    /\ UNCHANGED <<env_var, raw_args, rustc_args, parsed_args, callbacks, callback_options,
                   source_name, exit_code, context_news, runs, diagVars, causeVars, cmpVars, pureVars, runVars>>

----------------------------------------------------------------------------
(* analysis/callback.rs: MirCheckerCallbacks *)

\* config.input.source_name().into_local_path()
LocalPaths == {None} \cup {Some(p) : p \in SourceNames}

\* fn config: records the source name; an input without a local path is unreachable!()
config ==
    /\ pc = "compiler"
    /\ callbacks = "MirCheckerCallbacks"
    /\ \E p \in LocalPaths :
        IF IsSome(p)
        THEN /\ source_name' = Unwrap(p)
             /\ pc' = "configured"
        ELSE /\ source_name' = source_name
             /\ pc' = "panicked"
    /\ UNCHANGED <<env_var, raw_args, rustc_args, parsed_args, callbacks, callback_options,
                   compiler_result, exit_code, context_news, runs, diagVars, causeVars, cmpVars, pureVars, runVars>>

\* ShouldSkip without the /macro test
ShouldSkip_NoMacro(name) ==
    \/ str_contains(name, LIBCORE)
    \/ str_contains(name, COMPILER_BUILTINS)
    \/ str_contains(name, LIBALLOC)
    \/ str_contains(name, LIBC)

\* the condition of the early return of run_analysis
ShouldSkip(name) ==
    \/ str_contains(name, LIBCORE)
    \/ str_contains(name, COMPILER_BUILTINS)
    \/ str_contains(name, LIBALLOC)
    \/ str_contains(name, MACRO)
    \/ str_contains(name, LIBC)

\* enum AbstractDomainType, as run matches on it
AbstractDomainType ==
    {"Interval", "Octagon", "Polyhedra", "LinearEqualities", "PplPolyhedra",
     "PplLinearCongruences", "PkgridPolyhedraLinCongruences"}

\* the match of run with the PplLinearCongruences arm a copy of the PplPolyhedra arm
DomainFor_CopiedArm(dt) ==
    CASE dt = "Interval" -> "ApronInterval"
      [] dt = "Octagon" -> "ApronOctagon"
      [] dt = "Polyhedra" -> "ApronPolyhedra"
      [] dt = "LinearEqualities" -> "ApronLinearEqualities"
      [] dt = "PplPolyhedra" -> "ApronPplPolyhedra"
      [] dt = "PplLinearCongruences" -> "ApronPplPolyhedra"
      [] dt = "PkgridPolyhedraLinCongruences" -> "ApronPkgridPolyhedraLinCongruences"

\* the match of run: the type parameter of the AbstractDomain::default() handed
\* to analyze_function
DomainFor(dt) ==
    CASE dt = "Interval" -> "ApronInterval"
      [] dt = "Octagon" -> "ApronOctagon"
      [] dt = "Polyhedra" -> "ApronPolyhedra"
      [] dt = "LinearEqualities" -> "ApronLinearEqualities"
      [] dt = "PplPolyhedra" -> "ApronPplPolyhedra"
      [] dt = "PplLinearCongruences" -> "ApronPplLinearCongruences"
      [] dt = "PkgridPolyhedraLinCongruences" -> "ApronPkgridPolyhedraLinCongruences"

\* the call analyze_function(def_id, AbstractDomain::<D>::default())
AnalyzeCall(def_id, dt) == [def_id |-> def_id, domain |-> DomainFor(dt), value |-> "default"]

\* after_analysis returning Continue although GlobalContext::new failed is lost
after_analysis_StopOnFailure(outcome) ==
    IF outcome = "context_failed" THEN "Stop" ELSE "Continue"

\* the value after_analysis returns, whatever run_analysis did
after_analysis(outcome) == "Continue"

\* the diagnostics stores an analysis of the entry point can leave behind
AnalysisStores ==
    {EmptyMap,
     [k \in {"f"} |-> <<Diagnostic(1, <<1>>, "Warning", FALSE, "Arithmetic")>>],
     [k \in {"f", "g"} |->
        IF k = "f" THEN <<Diagnostic(1, <<1>>, "Warning", FALSE, "Arithmetic")>>
        ELSE <<Diagnostic(2, <<1>>, "Warning", TRUE, "Memory")>>]}

\* after_analysis, run_analysis returns early: the source file is skipped
after_analysis_skip ==
    /\ pc = "configured"
    /\ ShouldSkip(source_name)
    /\ compilation' = Some(after_analysis("skipped"))
    /\ pc' = "analysed"
    /\ UNCHANGED <<env_var, raw_args, rustc_args, parsed_args, callbacks, callback_options,
                   source_name, compiler_result, exit_code, context_news, runs,
                   diagVars, causeVars, cmpVars, pureVars, domain_type, entry_point, analyze_calls, run_result,
                   wto_visitor>>

\* after_analysis, GlobalContext::new returns None
after_analysis_context_failed ==
    /\ pc = "configured"
    /\ ~ShouldSkip(source_name)
    /\ context_news' = context_news + 1
    /\ compilation' = Some(after_analysis("context_failed"))
    /\ pc' = "analysed"
    /\ UNCHANGED <<env_var, raw_args, rustc_args, parsed_args, callbacks, callback_options,
                   source_name, compiler_result, exit_code, runs, diagVars, causeVars, cmpVars, pureVars,
                   domain_type, entry_point, analyze_calls, run_result,
                   wto_visitor>>

\* after_analysis, GlobalContext::new returns a context: NumericalAnalysis::new,
\* then run(): analyze_function on the entry point, then emit_diagnostics
after_analysis_run ==
    /\ pc = "configured"
    /\ ~ShouldSkip(source_name)
    /\ context_news' = context_news + 1
    /\ runs' = runs + 1
    /\ analysis_options' = Unwrap(callback_options)
    /\ \E store \in AnalysisStores :
        /\ \E order \in IterationOrders(store) :
            /\ created' = created \o Flatten(store, order)
            /\ emitted' = emitted \o EmitCalls(store, order, Unwrap(callback_options))
            /\ cancelled' = cancelled \o CancelCalls(store, order, Unwrap(callback_options))
    /\ diagnostics_for' = EmptyMap
    /\ phase' = "emitted"
    /\ analyze_calls' = Append(analyze_calls, AnalyzeCall(entry_point, domain_type))
    /\ run_result' = Some("Ok")
    /\ compilation' = Some(after_analysis("Ok"))
    /\ pc' = "analysed"
    /\ UNCHANGED <<env_var, raw_args, rustc_args, parsed_args, callbacks, callback_options,
                   source_name, compiler_result, exit_code, dropped, causeVars, cmpVars, pureVars,
                   domain_type, entry_point, wto_visitor>>

----------------------------------------------------------------------------
(* NumericalAnalysis::run, step by step *)

\* run up to the first call analyze_function makes: the match on domain_type,
\* analyze_function(def_id, default domain), WtoFixPointIterator::new
run_analyze_function ==
    /\ phase = "new"
    /\ analyze_calls' = Append(analyze_calls, AnalyzeCall(entry_point, domain_type))
    /\ phase' = "iterator"
    /\ UNCHANGED <<analysis_options, diagnostics_for, emitted, cancelled, dropped, created,
                   causeVars, cmpVars, pureVars, driverVars, compilation, domain_type, entry_point, run_result,
                   wto_visitor>>

\* analyze_function: wto_visitor.init_promote_constants()
init_promote_constants ==
    /\ phase = "iterator"
    /\ phase' = "promoted"
    /\ UNCHANGED <<analysis_options, diagnostics_for, emitted, cancelled, dropped, created,
                   causeVars, cmpVars, pureVars, driverVars, runVars>>

\* analyze_function: wto_visitor.run() has returned
wto_run ==
    /\ phase = "promoted"
    /\ wto_visitor = None
    /\ phase' = "fixpoint"
    /\ UNCHANGED <<analysis_options, diagnostics_for, emitted, cancelled, dropped, created,
                   causeVars, cmpVars, pureVars, driverVars, runVars>>

\* run_checker called before wto_visitor.run()
run_checker_BeforeRun ==
    /\ phase = "promoted"
    /\ \E store \in AnalysisStores :
        /\ diagnostics_for' = store
        /\ \E order \in IterationOrders(store) : created' = created \o Flatten(store, order)
    /\ phase' = "checked"
    /\ UNCHANGED <<analysis_options, emitted, cancelled, dropped,
                   causeVars, cmpVars, pureVars, driverVars, runVars>>

\* analyze_function: wto_visitor.run_checker() fills the diagnostics store, and
\* analyze_function returns
run_checker ==
    /\ phase = "fixpoint"
    /\ \E store \in AnalysisStores :
        /\ diagnostics_for' = store
        /\ \E order \in IterationOrders(store) : created' = created \o Flatten(store, order)
    /\ phase' = "checked"
    /\ UNCHANGED <<analysis_options, emitted, cancelled, dropped,
                   causeVars, cmpVars, pureVars, driverVars, runVars>>

\* run after analyze_function: self.emit_diagnostics(), then Ok(AnalysisInfo)
run_emit_diagnostics ==
    /\ phase = "checked"
    /\ \E order \in IterationOrders(diagnostics_for) :
        /\ emitted' = emitted \o EmitCalls(diagnostics_for, order, analysis_options)
        /\ cancelled' = cancelled \o CancelCalls(diagnostics_for, order, analysis_options)
    /\ diagnostics_for' = EmptyMap
    /\ run_result' = Some("Ok")
    /\ phase' = "emitted"
    /\ UNCHANGED <<analysis_options, dropped, created, causeVars, cmpVars, pureVars, driverVars,
                   compilation, domain_type, entry_point, analyze_calls,
                   wto_visitor>>

\* the sequences over S of length n
RECURSIVE SeqsOfLen(_, _)
SeqsOfLen(S, n) ==
    IF n = 0 THEN {<<>>}
    ELSE {Append(q, x) : q \in SeqsOfLen(S, n - 1), x \in S}

----------------------------------------------------------------------------
(* The fixed-point iterator over the WTO of the entry point *)

\* the largest widening_delay of the options
MaxDelay == 2
\* the longest chain a widening of a domain climbs before it is stable
MaxChain == 2
\* the cap on the descents of a narrowing pass
MaxDescents == 2
\* the number of components of the WTO of a function
MaxComponents == 2

\* a nested component of the WTO with its head: growth is the number of
\* iterations after which the joins at the head are stable by themselves
\* (None: never), chain the number of widenings after which the widened state
\* is stable, narrow_len the number of descents after which narrowing is
\* stable (None: the domain does not narrow to a fixed point)
Loops ==
    [kind : {"loop"}, growth : {Some(1), None}, chain : {0, MaxChain},
     narrow_len : {Some(0), None}]

\* a component that is a single vertex
Vertex == [kind |-> "vertex"]

\* the WTOs of the functions analysed
Wtos ==
    UNION {SeqsOfLen(Loops \cup {Vertex}, n) : n \in 1..MaxComponents}

\* WtoFixPointIterator::new: the iterator before the first component
WtoFixPointIterator(wto, widening_delay) ==
    [wto |-> wto, widening_delay |-> widening_delay, pos |-> 1,
     mode |-> "ascend", joins |-> 0, widened |-> 0, descents |-> 0]

\* a widening that does not climb its chain
Widen_NoChain(widened) == widened

\* widen(old, new): one step up the chain of the widening
Widen(widened) == widened + 1

\* until post[h] is below old_post[h]: the head is stable after this iteration
HeadStable(it, loop) ==
    \/ IsSome(loop.growth) /\ it.joins + it.widened >= Unwrap(loop.growth)
    \/ it.joins >= it.widening_delay /\ it.widened >= loop.chain

\* the narrowing pass ends: the state is stable or the cap is reached
NarrowingDone(it, loop) ==
    \/ IsSome(loop.narrow_len) /\ it.descents >= Unwrap(loop.narrow_len)
    \/ it.descents >= MaxDescents

\* the iterator moves on to the next component
NextComponent(it) ==
    [it EXCEPT !.pos = it.pos + 1, !.mode = "ascend", !.joins = 0, !.widened = 0,
               !.descents = 0]

\* wto_visitor.run(), a component that is a single vertex
wto_vertex ==
    /\ phase = "promoted"
    /\ IsSome(wto_visitor)
    /\ LET it == Unwrap(wto_visitor)
       IN  /\ it.pos <= Len(it.wto)
           /\ it.wto[it.pos].kind = "vertex"
           /\ wto_visitor' = Some(NextComponent(it))
    /\ UNCHANGED <<diagVars, causeVars, cmpVars, pureVars, driverVars, compilation, domain_type,
                   entry_point, analyze_calls, run_result>>

\* wto_visitor.run(), one iteration of the head of a nested component: a join
\* while k < widening_delay, a widening afterwards
wto_iterate ==
    /\ phase = "promoted"
    /\ IsSome(wto_visitor)
    /\ LET it == Unwrap(wto_visitor)
       IN  /\ it.pos <= Len(it.wto)
           /\ it.wto[it.pos].kind = "loop"
           /\ it.mode = "ascend"
           /\ wto_visitor' = Some(
                IF HeadStable(it, it.wto[it.pos]) THEN [it EXCEPT !.mode = "narrow"]
                ELSE IF it.joins < it.widening_delay THEN [it EXCEPT !.joins = it.joins + 1]
                ELSE [it EXCEPT !.widened = Widen(it.widened)])
    /\ UNCHANGED <<diagVars, causeVars, cmpVars, pureVars, driverVars, compilation, domain_type,
                   entry_point, analyze_calls, run_result>>

\* wto_visitor.run(), one descent of the narrowing pass of a nested component
wto_narrow ==
    /\ phase = "promoted"
    /\ IsSome(wto_visitor)
    /\ LET it == Unwrap(wto_visitor)
       IN  /\ it.pos <= Len(it.wto)
           /\ it.wto[it.pos].kind = "loop"
           /\ it.mode = "narrow"
           /\ wto_visitor' = Some(
                IF NarrowingDone(it, it.wto[it.pos]) THEN NextComponent(it)
                ELSE [it EXCEPT !.descents = it.descents + 1])
    /\ UNCHANGED <<diagVars, causeVars, cmpVars, pureVars, driverVars, compilation, domain_type,
                   entry_point, analyze_calls, run_result>>

\* wto_visitor.run() returns: every component has been iterated
wto_run_returns ==
    /\ phase = "promoted"
    /\ IsSome(wto_visitor)
    /\ Unwrap(wto_visitor).pos > Len(Unwrap(wto_visitor).wto)
    /\ phase' = "fixpoint"
    /\ UNCHANGED <<analysis_options, diagnostics_for, emitted, cancelled, dropped, created,
                   causeVars, cmpVars, pureVars, driverVars, runVars>>

----------------------------------------------------------------------------
(* rustc types, as the type visitor and utils.rs match on them *)

\* the depth of the types handed to the functions of utils.rs
MaxTyDepth == 2
\* the depth of the types handed to the functions of the type visitor
MaxBaseDepth == 1

\* a type is a tuple, its TyKind first
Kind(ty) == ty[1]
Bool == <<"Bool">>
I32 == <<"Int", "i32">>
Error == <<"Error">>
Param(name, index) == <<"Param", name, index>>
Ref(ty, mutbl) == <<"Ref", ty, mutbl>>
RawPtr(ty, mutbl) == <<"RawPtr", ty, mutbl>>
Array(ty, len) == <<"Array", ty, len>>
Slice(ty) == <<"Slice", ty>>
Tuple(types) == <<"Tuple", types>>
Adt(def, args) == <<"Adt", def, args>>
Closure(def, args) == <<"Closure", def, args>>
FnDef(def, args) == <<"FnDef", def, args>>
FnPtr(inputs_and_output) == <<"FnPtr", inputs_and_output>>

\* tcx.types.unit, the empty tuple
Unit == Tuple(<<>>)

\* a generic argument: a type, or a lifetime
TypeArg(ty) == <<"Type", ty>>
LifetimeArg == <<"Lifetime">>

\* the outcome of a call that ends in unreachable!(), todo!() or bug!()
Panic == <<"panic">>

ParamSelf == Param("Self", 0)
ParamT == Param("T", 1)

BaseTypes == {Bool, I32, ParamSelf, ParamT, Error}

\* the types built from ty by one type constructor
Compound(ty) ==
    {Ref(ty, "Not"), Ref(ty, "Mut"), RawPtr(ty, "Not"), RawPtr(ty, "Mut"),
     Array(ty, 2), Array(ty, 3), Slice(ty), Tuple(<<ty>>), Tuple(<<ty, Bool>>),
     Adt("S", <<TypeArg(ty)>>), Closure("c", <<TypeArg(ty)>>),
     FnDef("f", <<LifetimeArg, TypeArg(ty)>>), FnPtr(<<ty, Bool>>)}

\* the types of nesting depth at most n
RECURSIVE Types(_)
Types(n) ==
    IF n = 0 THEN BaseTypes
    ELSE Types(n - 1) \cup UNION {Compound(ty) : ty \in Types(n - 1)}

----------------------------------------------------------------------------
(* TypeVisitor *)

\* fn get_element_type
get_element_type(ty) ==
    CASE Kind(ty) = "Array" -> ty[2]
      [] Kind(ty) = "Ref" ->
            IF Kind(ty[2]) \in {"Array", "Slice"} THEN ty[2][2] ELSE ty[2]
      [] Kind(ty) = "Slice" -> ty[2]
      [] OTHER -> ty

\* fn get_dereferenced_type
get_dereferenced_type(ty) ==
    IF Kind(ty) = "Ref" THEN ty[2] ELSE ty

\* the projection elements of a place; Field carries the type of the field
FieldTypes == {I32, ParamT}
ProjectionElems ==
    {<<"Deref">>, <<"Index">>, <<"ConstantIndex">>, <<"Subslice">>, <<"Downcast">>,
     <<"OpaqueCast">>, <<"Subtype">>}
        \cup {<<"Field", ty>> : ty \in FieldTypes}

\* one step of the fold in get_type_for_projection_element
ProjectionStep(base_ty, projection_elem) ==
    IF base_ty = Panic THEN Panic
    ELSE CASE projection_elem[1] = "Deref" ->
                CASE Kind(base_ty) = "Adt" -> base_ty
                  [] Kind(base_ty) = "RawPtr" -> base_ty[2]
                  [] Kind(base_ty) = "Ref" -> base_ty[2]
                  [] OTHER -> Panic
           [] projection_elem[1] = "Field" -> projection_elem[2]
           [] projection_elem[1] \in {"Index", "ConstantIndex", "Subslice"} ->
                CASE Kind(base_ty) = "Adt" -> base_ty
                  [] Kind(base_ty) = "Array" -> base_ty[2]
                  [] Kind(base_ty) = "Ref" -> get_element_type(base_ty[2])
                  [] Kind(base_ty) = "Slice" -> base_ty[2]
                  [] OTHER -> Panic
           [] projection_elem[1] = "Downcast" -> base_ty
           [] projection_elem[1] = "OpaqueCast" -> Panic
           [] projection_elem[1] = "Subtype" -> Panic

\* fn get_type_for_projection_element: the fold over the projection
RECURSIVE get_type_for_projection_element(_, _)
get_type_for_projection_element(base_ty, place_projection) ==
    IF place_projection = <<>> THEN base_ty
    ELSE get_type_for_projection_element(
            ProjectionStep(base_ty, Head(place_projection)), Tail(place_projection))

\* GenericArg::expect_ty
expect_ty(gen_arg) == IF gen_arg[1] = "Type" THEN gen_arg[2] ELSE Panic

\* the match of get_rustc_place_type on the type the projection resolved to
SpecializePlaceType(tv, result) ==
    CASE result = Panic -> Panic
      [] Kind(result) = "Param" ->
            IF IsSome(tv.generic_arguments)
            THEN IF result[3] < Len(Unwrap(tv.generic_arguments))
                 THEN expect_ty(Unwrap(tv.generic_arguments)[result[3] + 1])
                 ELSE IF result[2] = "Self" /\ tv.actual_argument_types # <<>>
                      THEN tv.actual_argument_types[1]
                      ELSE result
            ELSE result
      [] Kind(result) = "Ref" ->
            IF /\ Kind(result[2]) = "Param"
               /\ result[2][2] = "Self"
               /\ tv.actual_argument_types # <<>>
            THEN Ref(tv.actual_argument_types[1], result[3])
            ELSE result
      [] OTHER -> result

\* the type the projection of a place resolves to, before the match
ResolvedPlaceType(tv, place) ==
    get_type_for_projection_element(tv.local_decls[place.local + 1], place.projection)

\* fn get_rustc_place_type
get_rustc_place_type(tv, place) == SpecializePlaceType(tv, ResolvedPlaceType(tv, place))

\* the field types of the last variant of an ADT under its generic arguments:
\* struct S<T>(T) is the one ADT of the model
FieldTys(def, substs) == <<expect_ty(substs[1])>>

RECURSIVE get_path_rustc_type(_, _)
\* fn get_path_rustc_type, path_ty_cache being empty as TypeVisitor::new leaves it;
\* a path is a tuple, the variant of PathEnum first
get_path_rustc_type(tv, path) ==
    CASE path[1] = "LocalVariable" ->
            IF path[2] > 0 /\ path[2] < Len(tv.local_decls)
            THEN tv.local_decls[path[2] + 1] ELSE Unit
      [] path[1] = "Parameter" ->
            IF Len(tv.actual_argument_types) >= path[2]
            THEN IF path[2] = 0 THEN Panic ELSE tv.actual_argument_types[path[2]]
            ELSE IF path[2] > 0 /\ path[2] < Len(tv.local_decls)
                 THEN tv.local_decls[path[2] + 1] ELSE Unit
      [] path[1] = "Result" ->
            IF tv.local_decls = <<>> THEN Unit ELSE tv.local_decls[1]
      [] path[1] = "QualifiedPath" ->
            LET t == get_path_rustc_type(tv, path[2])
                selector == path[3]
                bt == get_dereferenced_type(t)
            IN  CASE t = Panic -> Panic
                  [] selector[1] = "Slice" -> t
                  [] selector[1] = "Field" ->
                        CASE Kind(bt) = "Adt" /\ selector[2] < Len(FieldTys(bt[2], bt[3])) ->
                                FieldTys(bt[2], bt[3])[selector[2] + 1]
                          [] Kind(bt) = "Closure" /\ selector[2] + 4 < Len(bt[3]) ->
                                expect_ty(bt[3][selector[2] + 5])
                          [] Kind(bt) = "Tuple" /\ selector[2] < Len(bt[2]) ->
                                bt[2][selector[2] + 1]
                          [] OTHER -> Unit
                  [] selector[1] = "Deref" -> get_dereferenced_type(t)
                  [] selector[1] = "Discriminant" -> I32
                  [] selector[1] = "Index" ->
                        IF Kind(t) \in {"Array", "Slice"} THEN t[2] ELSE Unit
                  [] OTHER -> Unit
      [] OTHER -> Unit

\* the substitution maps handed to specialize_generic_argument_type
GenericArgumentMaps ==
    {None,
     Some([name \in {"T"} |-> I32]),
     Some([name \in {"T", "Self"} |-> IF name = "T" THEN I32 ELSE Bool])}

RECURSIVE specialize_generic_argument_type(_, _)
\* fn specialize_generic_argument
specialize_generic_argument(gen_arg, map) ==
    IF gen_arg[1] = "Type"
    THEN TypeArg(specialize_generic_argument_type(gen_arg[2], map))
    ELSE gen_arg

\* fn specialize_substs
specialize_substs(substs, map) ==
    [i \in 1..Len(substs) |-> specialize_generic_argument(substs[i], map)]

\* fn specialize_generic_argument_type
specialize_generic_argument_type(gen_arg_type, map) ==
    IF map = None THEN gen_arg_type
    ELSE CASE Kind(gen_arg_type) = "Adt" -> gen_arg_type
           [] Kind(gen_arg_type) = "Array" ->
                Array(specialize_generic_argument_type(gen_arg_type[2], map), gen_arg_type[3])
           [] Kind(gen_arg_type) = "Slice" ->
                Slice(specialize_generic_argument_type(gen_arg_type[2], map))
           [] Kind(gen_arg_type) = "RawPtr" ->
                RawPtr(specialize_generic_argument_type(gen_arg_type[2], map), gen_arg_type[3])
           [] Kind(gen_arg_type) = "Ref" ->
                Ref(specialize_generic_argument_type(gen_arg_type[2], map), gen_arg_type[3])
           [] Kind(gen_arg_type) = "FnDef" ->
                FnDef(gen_arg_type[2], specialize_substs(gen_arg_type[3], map))
           [] Kind(gen_arg_type) = "FnPtr" ->
                FnPtr([i \in 1..Len(gen_arg_type[2]) |->
                        specialize_generic_argument_type(gen_arg_type[2][i], map)])
           [] Kind(gen_arg_type) = "Tuple" ->
                Tuple([i \in 1..Len(gen_arg_type[2]) |->
                        specialize_generic_argument_type(gen_arg_type[2][i], map)])
           [] Kind(gen_arg_type) = "Param" ->
                IF gen_arg_type[2] \in DOMAIN Unwrap(map)
                THEN Unwrap(map)[gen_arg_type[2]]
                ELSE gen_arg_type
           [] OTHER -> gen_arg_type

\* mir.local_decls of the body the visitor was made for: _0 and eight locals
LocalDecls ==
    <<Unit, ParamT, ParamSelf, Ref(ParamSelf, "Not"), Ref(ParamT, "Mut"),
      RawPtr(I32, "Not"), Array(ParamT, 2), Ref(Slice(I32), "Not"),
      Adt("S", <<TypeArg(ParamT)>>)>>

\* the visitors: TypeVisitor::new, then generic_arguments and
\* actual_argument_types as a call site sets them
TypeVisitors ==
    [local_decls : {LocalDecls},
     generic_arguments :
        {None, Some(<<>>), Some(<<TypeArg(Bool)>>), Some(<<TypeArg(Bool), TypeArg(I32)>>),
         Some(<<LifetimeArg, TypeArg(I32)>>)},
     actual_argument_types : {<<>>, <<I32>>, <<Ref(Bool, "Not"), I32>>}]

\* the places of the body: a local and a projection of at most one element
Places ==
    [local : 0..(Len(LocalDecls) - 1),
     projection : {<<>>} \cup {<<e>> : e \in {<<"Deref">>, <<"Index">>, <<"Downcast">>}}]

\* the paths handed to get_path_rustc_type
RootPaths ==
    {<<"Result">>, <<"HeapBlock">>}
        \cup {<<"LocalVariable", n>> : n \in 0..Len(LocalDecls)}
        \cup {<<"Parameter", n>> : n \in 0..3 \cup {Len(LocalDecls)}}
PathSelectors ==
    {<<"Deref">>, <<"Index">>, <<"Discriminant">>, <<"Slice">>, <<"Field", 0>>, <<"Field", 1>>}
Paths == RootPaths \cup {<<"QualifiedPath", q, sel>> : q \in RootPaths, sel \in PathSelectors}

\* The functions of the visitor take &self and write no field: a behaviour
\* makes one call and records it.

\* a call of get_rustc_place_type
GetRustcPlaceType ==
    /\ IsSome(type_visitor)
    /\ ty_call = None
    /\ \E place \in Places :
        /\ ty_call' = Some([fn |-> "get_rustc_place_type", place |-> place])
        /\ ty_result' = Some(get_rustc_place_type(Unwrap(type_visitor), place))
    /\ UNCHANGED <<type_visitor, util_call, util_result, diagVars, causeVars, cmpVars, driverVars, runVars>>

\* a call of get_path_rustc_type
GetPathRustcType ==
    /\ IsSome(type_visitor)
    /\ ty_call = None
    /\ \E path \in Paths :
        /\ ty_call' = Some([fn |-> "get_path_rustc_type", path |-> path])
        /\ ty_result' = Some(get_path_rustc_type(Unwrap(type_visitor), path))
    /\ UNCHANGED <<type_visitor, util_call, util_result, diagVars, causeVars, cmpVars, driverVars, runVars>>

\* a call of get_type_for_projection_element
GetTypeForProjectionElement ==
    /\ IsSome(type_visitor)
    /\ ty_call = None
    /\ \E base_ty \in Types(MaxBaseDepth), elem \in ProjectionElems,
          rest \in {<<>>, <<<<"Downcast">>>>} :
        /\ ty_call' = Some([fn |-> "get_type_for_projection_element", base_ty |-> base_ty,
                            projection |-> <<elem>> \o rest])
        /\ ty_result' = Some(get_type_for_projection_element(base_ty, <<elem>> \o rest))
    /\ UNCHANGED <<type_visitor, util_call, util_result, diagVars, causeVars, cmpVars, driverVars, runVars>>

\* a call of specialize_generic_argument_type
SpecializeGenericArgumentType ==
    /\ IsSome(type_visitor)
    /\ ty_call = None
    /\ \E ty \in Types(MaxBaseDepth), map \in GenericArgumentMaps :
        /\ ty_call' = Some([fn |-> "specialize_generic_argument_type", ty |-> ty, map |-> map])
        /\ ty_result' = Some(specialize_generic_argument_type(ty, map))
    /\ UNCHANGED <<type_visitor, util_call, util_result, diagVars, causeVars, cmpVars, driverVars, runVars>>

----------------------------------------------------------------------------
(* utils.rs: keys and mangled names; a string is the sequence of its characters *)

\* the longest definition path handed to summary_key_str
MaxPathLen == 3

\* str::ends_with(pat)
ends_with(s, pat) ==
    Len(pat) <= Len(s) /\ SubSeq(s, Len(s) - Len(pat) + 1, Len(s)) = pat

\* u32::to_string
RECURSIVE to_string(_)
to_string(n) ==
    LET digit == <<"0", "1", "2", "3", "4", "5", "6", "7", "8", "9">>[(n % 10) + 1]
    IN  IF n < 10 THEN <<digit>> ELSE to_string(n \div 10) \o <<digit>>

FOREIGN_CONTRACTS == <<"f", "o", "r", "e", "i", "g", "n", "_", "c", "o", "n", "t", "r", "a", "c", "t", "s">>
NUM == <<"n", "u", "m">>
CORE == <<"c", "o", "r", "e">>

\* a component of a definition path: its DefPathData and its disambiguator
Component(data, disambiguator) == [data |-> data, disambiguator |-> disambiguator]
TypeNs(name) == <<"TypeNs", name>>
ValueNs(name) == <<"ValueNs", name>>
Impl == <<"Impl">>

\* fn push_component_name: the characters pushed to target
push_component_name(component_data) ==
    CASE component_data[1] \in {"TypeNs", "ValueNs", "MacroNs", "LifetimeNs"} -> component_data[2]
      [] component_data[1] = "CrateRoot" -> <<"c", "r", "a", "t", "e", "_", "r", "o", "o", "t">>
      [] component_data[1] = "Impl" -> <<"i", "m", "p", "l", "e", "m", "e", "n", "t">>
      [] component_data[1] = "ForeignMod" -> <<"f", "o", "r", "e", "i", "g", "n", "_", "m", "o", "d">>
      [] component_data[1] = "Use" -> <<"u", "s", "e">>
      [] component_data[1] = "GlobalAsm" -> <<"g", "l", "o", "b", "a", "l", "_", "a", "s", "m">>
      [] component_data[1] = "Closure" -> <<"c", "l", "o", "s", "u", "r", "e">>
      [] component_data[1] = "Ctor" -> <<"c", "t", "o", "r">>
      [] component_data[1] = "AnonConst" -> <<"c", "o", "n", "s", "t", "a", "n", "t">>
      [] component_data[1] = "OpaqueTy" -> <<"o", "p", "a", "q", "u", "e", "_", "t", "y", "p", "e">>
      [] component_data[1] = "AnonAdt" -> <<"a", "n", "o", "n", "y", "m", "o", "u", "s", "_", "t", "y", "p", "e">>

\* fn crate_name
crate_name(def) == def.krate

\* fn qualified_type_name, from its component i on
RECURSIVE QualifiedTypeNameFrom(_, _, _)
QualifiedTypeNameFrom(def, i, name) ==
    IF i > Len(def.data) THEN name
    ELSE LET component == def.data[i]
             pushed == name \o <<"_">> \o push_component_name(component.data)
         IN  QualifiedTypeNameFrom(def, i + 1,
                IF component.disambiguator # 0
                THEN pushed \o <<"_">> \o to_string(component.disambiguator)
                ELSE pushed)

\* fn qualified_type_name
qualified_type_name(def) == QualifiedTypeNameFrom(def, 1, crate_name(def))

\* tcx.def_path of the definitions the types of the model name: the struct
\* c::S, the function c::f and the closure in it
TypeDef(def_id) ==
    CASE def_id = "S" -> [krate |-> <<"c">>, data |-> <<Component(TypeNs(<<"S">>), 0)>>]
      [] def_id = "f" -> [krate |-> <<"c">>, data |-> <<Component(ValueNs(<<"f">>), 0)>>]
      [] def_id = "c" ->
            [krate |-> <<"c">>,
             data |-> <<Component(ValueNs(<<"f">>), 0), Component(<<"Closure">>, 0)>>]

\* format!("{:?}", ty) of the types the default arm sees
DebugFormat(ty) == CASE Kind(ty) = "Error" -> <<"{", "t", "y", "p", "e", " ", "e", "r", "r", "o", "r", "}">>

RECURSIVE append_mangled_type(_)
\* the loops of append_mangled_type over generic arguments: '_' and the
\* mangled type for every argument that is a type
RECURSIVE MangledArgs(_)
MangledArgs(subs) ==
    IF subs = <<>> THEN <<>>
    ELSE (IF Head(subs)[1] = "Type"
          THEN <<"_">> \o append_mangled_type(Head(subs)[2])
          ELSE <<>>) \o MangledArgs(Tail(subs))

\* the loop of the Tuple arm
RECURSIVE MangledTupleTypes(_)
MangledTupleTypes(types) ==
    IF types = <<>> THEN <<>>
    ELSE <<"_">> \o append_mangled_type(Head(types)) \o MangledTupleTypes(Tail(types))

\* the loop of the FnPtr arm over fn_sig.inputs()
RECURSIVE MangledInputs(_)
MangledInputs(inputs) ==
    IF inputs = <<>> THEN <<>>
    ELSE append_mangled_type(Head(inputs)) \o <<"_">> \o MangledInputs(Tail(inputs))

\* fn append_mangled_type: the characters appended to str
append_mangled_type(ty) ==
    CASE Kind(ty) = "Bool" -> <<"b", "o", "o", "l">>
      [] Kind(ty) = "Int" -> <<"i", "3", "2">>
      [] Kind(ty) = "Adt" -> qualified_type_name(TypeDef(ty[2])) \o MangledArgs(ty[3])
      [] Kind(ty) = "Closure" ->
            <<"c", "l", "o", "s", "u", "r", "e", "_">> \o qualified_type_name(TypeDef(ty[2])) \o MangledArgs(ty[3])
      [] Kind(ty) = "FnDef" ->
            <<"f", "n", "_">> \o qualified_type_name(TypeDef(ty[2])) \o MangledArgs(ty[3])
      [] Kind(ty) = "Array" -> <<"a", "r", "r", "a", "y", "_">> \o append_mangled_type(ty[2])
      [] Kind(ty) = "Slice" -> <<"s", "l", "i", "c", "e", "_">> \o append_mangled_type(ty[2])
      [] Kind(ty) = "RawPtr" ->
            <<"p", "o", "i", "n", "t", "e", "r", "_">> \o (IF ty[3] = "Mut" THEN <<"m", "u", "t", "_">> ELSE <<"c", "o", "n", "s", "t", "_">>)
                \o append_mangled_type(ty[2])
      [] Kind(ty) = "Ref" ->
            <<"r", "e", "f", "_">> \o (IF ty[3] = "Mut" THEN <<"m", "u", "t", "_">> ELSE <<>>)
                \o append_mangled_type(ty[2])
      [] Kind(ty) = "FnPtr" ->
            <<"f", "n", "_", "p", "t", "r", "_">> \o MangledInputs(SubSeq(ty[2], 1, Len(ty[2]) - 1))
                \o append_mangled_type(ty[2][Len(ty[2])])
      [] Kind(ty) = "Tuple" ->
            <<"t", "u", "p", "l", "e", "_">> \o to_string(Len(ty[2])) \o MangledTupleTypes(ty[2])
      [] Kind(ty) = "Param" -> <<"g", "e", "n", "e", "r", "i", "c", "_", "p", "a", "r", "_">> \o (IF ty[2] = "Self" THEN <<"S", "e", "l", "f">> ELSE <<"T">>)
      [] OTHER -> <<"d", "e", "f", "a", "u", "l", "t", " ", "f", "o", "r", "m", "a", "t", "t", "e", "d", " ">> \o DebugFormat(ty)

\* the head of the loop of summary_key_str dropping the '.' as well
KeySeparator_NoDot(name) ==
    IF ends_with(name, FOREIGN_CONTRACTS) THEN <<>> ELSE name

\* the head of the loop of summary_key_str: the prefix is cleared, or a '.' pushed
KeySeparator(name) ==
    IF ends_with(name, FOREIGN_CONTRACTS) THEN <<>>
    ELSE IF ~ends_with(name, <<".">>) THEN name \o <<".">> ELSE name

\* what summary_key_str pushes for a non-zero disambiguator
KeyDisambiguator(def, component, type_ns) ==
    IF component.data = Impl /\ IsSome(type_ns)
    THEN IF Unwrap(type_ns) = NUM /\ def.krate = CORE
         THEN <<"_">> \o append_mangled_type(def.parent_ty)
         ELSE <<"_">> \o Unwrap(type_ns)
    ELSE <<"_">> \o to_string(component.disambiguator)

\* fn summary_key_str, from its component i on
RECURSIVE SummaryKeyFrom(_, _, _, _)
SummaryKeyFrom(def, i, name, type_ns) ==
    IF i > Len(def.data) THEN name
    ELSE LET component == def.data[i]
             pushed == KeySeparator(name) \o push_component_name(component.data)
             ns == IF component.data[1] = "TypeNs" THEN Some(component.data[2]) ELSE type_ns
         IN  SummaryKeyFrom(def, i + 1,
                IF component.disambiguator # 0
                THEN pushed \o KeyDisambiguator(def, component, ns)
                ELSE pushed,
                ns)

\* fn summary_key_str
summary_key_str(def) == SummaryKeyFrom(def, 1, crate_name(def), None)

RECURSIVE is_concrete(_)
\* fn are_concrete
RECURSIVE are_concrete(_)
are_concrete(gen_args) ==
    IF gen_args = <<>> THEN TRUE
    ELSE IF Head(gen_args)[1] = "Type" /\ ~is_concrete(Head(gen_args)[2]) THEN FALSE
         ELSE are_concrete(Tail(gen_args))

\* fn is_concrete
is_concrete(ty) ==
    CASE Kind(ty) \in {"Bound", "Param", "Infer", "Error"} -> FALSE
      [] Kind(ty) \in {"Adt", "Closure", "FnDef"} -> are_concrete(ty[3])
      [] Kind(ty) = "Tuple" -> \A i \in 1..Len(ty[2]) : is_concrete(ty[2][i])
      [] Kind(ty) = "Ref" -> is_concrete(ty[2])
      [] OTHER -> TRUE

\* the components of the definition paths of the model
Components ==
    {Component(TypeNs(<<"m">>), 0), Component(TypeNs(<<"m">>), 1),
     Component(TypeNs(NUM), 0), Component(TypeNs(FOREIGN_CONTRACTS), 0),
     Component(ValueNs(<<"f">>), 0), Component(ValueNs(<<"f">>), 1),
     Component(Impl, 0), Component(Impl, 1), Component(Impl, 2)}

\* the definitions: the crate, the path, and tcx.type_of(tcx.parent(def_id)),
\* the self type of the impl a definition in an impl belongs to
Defs ==
    [krate : {<<"c">>, CORE},
     data : UNION {SeqsOfLen(Components, n) : n \in 0..MaxPathLen},
     parent_ty : {I32}]

\* The functions of utils.rs are pure: a behaviour makes one call and records it.

\* a call of summary_key_str
SummaryKeyStr ==
    /\ util_call = None
    /\ \E def \in Defs :
        /\ util_call' = Some([fn |-> "summary_key_str", def |-> def])
        /\ util_result' = Some(summary_key_str(def))
    /\ UNCHANGED <<type_visitor, ty_call, ty_result, diagVars, causeVars, cmpVars, driverVars, runVars>>

\* a call of is_concrete
IsConcrete ==
    /\ util_call = None
    /\ \E ty \in Types(MaxTyDepth) :
        /\ util_call' = Some([fn |-> "is_concrete", ty |-> ty])
        /\ util_result' = Some(is_concrete(ty))
    /\ UNCHANGED <<type_visitor, ty_call, ty_result, diagVars, causeVars, cmpVars, driverVars, runVars>>

\* a call of are_concrete
AreConcrete ==
    /\ util_call = None
    /\ \E ty \in Types(MaxTyDepth), first \in {<<>>, <<LifetimeArg>>, <<TypeArg(Bool)>>} :
        /\ util_call' = Some([fn |-> "are_concrete", gen_args |-> first \o <<TypeArg(ty)>>])
        /\ util_result' = Some(are_concrete(first \o <<TypeArg(ty)>>))
    /\ UNCHANGED <<type_visitor, ty_call, ty_result, diagVars, causeVars, cmpVars, driverVars, runVars>>

\* a call of append_mangled_type on an empty string
AppendMangledType ==
    /\ util_call = None
    /\ \E ty \in Types(MaxTyDepth) :
        /\ util_call' = Some([fn |-> "append_mangled_type", ty |-> ty])
        /\ util_result' = Some(append_mangled_type(ty))
    /\ UNCHANGED <<type_visitor, ty_call, ty_result, diagVars, causeVars, cmpVars, driverVars, runVars>>

----------------------------------------------------------------------------
(* Specifications *)

\* the state of the diagnostics variables while no analysis exists
IdleDiag ==
    /\ analysis_options =
        [deny_warnings |-> FALSE, suppressed_warnings |-> None, memory_safety_only |-> FALSE]
    /\ diagnostics_for = EmptyMap
    /\ emitted = <<>>
    /\ cancelled = <<>>
    /\ dropped = <<>>
    /\ created = <<>>
    /\ phase = "idle"

IdleCause == assert_kinds = <<>> /\ causes = <<>>

\* Diagnostic::compare was not called
IdleCmp == cmp_args = None /\ cmp_result = None

\* the state of the driver variables before main has run
IdleDriver ==
    /\ pc = "start"
    /\ rustc_args = None
    /\ parsed_args = None
    /\ callbacks = "none"
    /\ callback_options = None
    /\ source_name = <<>>
    /\ compiler_result = None
    /\ exit_code = None
    /\ context_news = 0
    /\ runs = 0

\* no TypeVisitor exists and no function of utils.rs was called
IdlePure ==
    /\ type_visitor = None
    /\ ty_call = None
    /\ ty_result = None
    /\ util_call = None
    /\ util_result = None

\* the state of the run variables before run is called
IdleRun ==
    /\ compilation = None
    /\ domain_type = "Interval"
    /\ entry_point = "f"
    /\ analyze_calls = <<>>
    /\ run_result = None
    /\ wto_visitor = None

\* NumericalAnalysis::new(context), the context holding DiagnosticsForDefId::default()
InitDiag ==
    /\ analysis_options \in AnalysisOption
    /\ diagnostics_for = EmptyMap
    /\ emitted = <<>>
    /\ cancelled = <<>>
    /\ dropped = <<>>
    /\ created = <<>>
    /\ phase = "analysis"
    /\ IdleCause
    /\ IdleCmp
    /\ IdleDriver
    /\ IdleRun
    /\ IdlePure
    /\ env_var = None
    /\ raw_args = <<>>

NextDiag == Insert \/ emit_diagnostics

\* bounds of the primary span sequences handed to compare
MaxSpan == 2
MaxSpans == 2

\* primary_spans() of any MultiSpan: the sequences of at most MaxSpans spans,
\* the empty one included
SpanSeqs == UNION {[1..n -> 1..MaxSpan] : n \in 0..MaxSpans}

\* three diagnostics exist; compare was not called yet
InitCmp ==
    /\ \E sx, sy, sz \in SpanSeqs :
        cmp_args = Some(<<Diagnostic(1, sx, "Warning", FALSE, "Arithmetic"),
                          Diagnostic(2, sy, "Warning", FALSE, "Arithmetic"),
                          Diagnostic(3, sz, "Warning", FALSE, "Arithmetic")>>)
    /\ cmp_result = None
    /\ IdleDiag
    /\ IdleCause
    /\ IdleDriver
    /\ IdleRun
    /\ IdlePure
    /\ env_var = None
    /\ raw_args = <<>>

\* Diagnostic::compare called on the pairs of x, y, z, as a sort calls it
Compare ==
    /\ IsSome(cmp_args)
    /\ cmp_result = None
    /\ LET x == Unwrap(cmp_args)[1]
           y == Unwrap(cmp_args)[2]
           z == Unwrap(cmp_args)[3]
       IN cmp_result' = Some([xy |-> compare(x, y), yx |-> compare(y, x),
                              yz |-> compare(y, z), xz |-> compare(x, z)])
    /\ UNCHANGED <<cmp_args, diagVars, causeVars, driverVars, runVars, pureVars>>

NextCmp == Compare

SpecCmp == InitCmp /\ [][NextCmp]_vars

SpecDiag == InitDiag /\ [][NextDiag]_vars

\* the checker before it has visited an assertion
InitCause ==
    /\ IdleCause
    /\ IdleCmp
    /\ IdleDiag
    /\ IdleDriver
    /\ IdleRun
    /\ IdlePure
    /\ env_var = None
    /\ raw_args = <<>>

NextCause == From

SpecCause == InitCause /\ [][NextCause]_vars

\* the process at its start: its command line and its environment
InitDriver ==
    /\ IdleDriver
    /\ env_var \in EnvValues
    /\ raw_args \in ArgLists
    /\ IdleDiag
    /\ IdleCause
    /\ IdleCmp
    /\ IdleRun
    /\ IdlePure

NextDriver ==
    \/ main_raw_args_error
    \/ main_be_rustc
    \/ main_analyzer
    \/ config
    \/ after_analysis_skip
    \/ after_analysis_context_failed
    \/ after_analysis_run
    \/ compiler_error
    \/ compiler_finish
    \/ exit

SpecDriver == InitDriver /\ [][NextDriver]_vars

\* NumericalAnalysis::new(context): the options and the entry point of the context
InitRun ==
    /\ analysis_options \in AnalysisOption
    /\ domain_type \in AbstractDomainType
    /\ entry_point \in DefIds
    /\ diagnostics_for = EmptyMap
    /\ emitted = <<>>
    /\ cancelled = <<>>
    /\ dropped = <<>>
    /\ created = <<>>
    /\ phase = "new"
    /\ analyze_calls = <<>>
    /\ run_result = None
    /\ wto_visitor = None
    /\ compilation = None
    /\ IdleCause
    /\ IdleCmp
    /\ IdleDriver
    /\ IdlePure
    /\ env_var = None
    /\ raw_args = <<>>

NextRun ==
    \/ run_analyze_function
    \/ init_promote_constants
    \/ wto_run
    \/ run_checker
    \/ run_emit_diagnostics

SpecRun == InitRun /\ [][NextRun]_vars

\* analyze_function after WtoFixPointIterator::new(context, def_id, domain, 0, vec![])
InitFix ==
    /\ \E wto \in Wtos, widening_delay \in 0..MaxDelay :
        wto_visitor = Some(WtoFixPointIterator(wto, widening_delay))
    /\ phase = "iterator"
    /\ analysis_options =
        [deny_warnings |-> FALSE, suppressed_warnings |-> None, memory_safety_only |-> FALSE]
    /\ domain_type = "Interval"
    /\ entry_point = "f"
    /\ analyze_calls = <<AnalyzeCall("f", "Interval")>>
    /\ diagnostics_for = EmptyMap
    /\ emitted = <<>>
    /\ cancelled = <<>>
    /\ dropped = <<>>
    /\ created = <<>>
    /\ run_result = None
    /\ compilation = None
    /\ IdleCause
    /\ IdleCmp
    /\ IdleDriver
    /\ IdlePure
    /\ env_var = None
    /\ raw_args = <<>>

NextFix ==
    \/ init_promote_constants
    \/ wto_vertex
    \/ wto_iterate
    \/ wto_narrow
    \/ wto_run_returns
    \/ run_checker
    \/ run_emit_diagnostics

\* the analysis is one thread that runs until run returns
SpecFix == InitFix /\ [][NextFix]_vars /\ WF_vars(NextFix)

\* a TypeVisitor of a body, before any of its functions is called
InitTypes ==
    /\ type_visitor \in {Some(tv) : tv \in TypeVisitors}
    /\ ty_call = None
    /\ ty_result = None
    /\ util_call = None
    /\ util_result = None
    /\ IdleDiag
    /\ IdleCause
    /\ IdleCmp
    /\ IdleDriver
    /\ IdleRun
    /\ env_var = None
    /\ raw_args = <<>>

NextTypes ==
    \/ GetRustcPlaceType
    \/ GetPathRustcType
    \/ GetTypeForProjectionElement
    \/ SpecializeGenericArgumentType

SpecTypes == InitTypes /\ [][NextTypes]_vars

\* before a function of utils.rs is called
InitUtils ==
    /\ IdlePure
    /\ IdleDiag
    /\ IdleCause
    /\ IdleCmp
    /\ IdleDriver
    /\ IdleRun
    /\ env_var = None
    /\ raw_args = <<>>

NextUtils ==
    \/ SummaryKeyStr
    \/ IsConcrete
    \/ AreConcrete
    \/ AppendMangledType

SpecUtils == InitUtils /\ [][NextUtils]_vars

----------------------------------------------------------------------------
(* Properties of emit_diagnostics and the diagnostics store (SpecDiag) *)

\* the step in which emit_diagnostics runs
EmitStep == phase = "analysis" /\ phase' = "emitted"

\* C1: every diagnostic the store holds when emit_diagnostics starts is
\* finalised exactly once by it, emitted or cancelled, never both and never
\* twice, whatever the options; and nothing else is finalised.
C1_FinalisedExactlyOnce ==
    [][EmitStep =>
        /\ \A d \in StoredDiags(diagnostics_for) :
            Count(emitted', d.id) + Count(cancelled', d.id) = 1
        /\ Len(emitted') + Len(cancelled') = Cardinality(StoredDiags(diagnostics_for))]_vars

\* emit_diagnostics has emitted one diagnostic and cancelled another
C1_Witness ==
    /\ phase = "emitted"
    /\ emitted # <<>>
    /\ cancelled # <<>>

\* C2: after any sequence of inserts, once the run has ended (emit_diagnostics
\* has run, or the run was aborted), no diagnostic was emitted more than once
\* and every diagnostic ever inserted was emitted or cancelled.
C2_EveryInsertedFinalised ==
    phase \in {"emitted", "panicked"} =>
        \A i \in 1..Len(created) :
            /\ Count(emitted, created[i].id) <= 1
            /\ Count(emitted, created[i].id) + Count(cancelled, created[i].id) >= 1

\* what the options say about one diagnostic
ShouldEmit(d, opts) ==
    /\ IsSome(opts.suppressed_warnings) => d.cause \notin Unwrap(opts.suppressed_warnings)
    /\ opts.memory_safety_only => d.is_memory_safety

\* C3: a stored diagnostic is emitted iff its cause is not suppressed and, under
\* memory_safety_only, it is a memory-safety diagnostic; every other stored
\* diagnostic is cancelled.
C3_EmittedIffNotFiltered ==
    [][EmitStep =>
        \A d \in StoredDiags(diagnostics_for) :
            /\ Count(emitted', d.id) >= 1 <=> ShouldEmit(d, analysis_options)
            /\ Count(cancelled', d.id) >= 1 <=> ~ShouldEmit(d, analysis_options)]_vars

\* under memory_safety_only a memory-safety diagnostic with a suppressed cause
\* was cancelled while another diagnostic was emitted
C3_Witness ==
    /\ phase = "emitted"
    /\ analysis_options.memory_safety_only
    /\ IsSome(analysis_options.suppressed_warnings)
    /\ emitted # <<>>
    /\ \E i \in 1..Len(cancelled) :
        /\ cancelled[i].is_memory_safety
        /\ cancelled[i].cause \in Unwrap(analysis_options.suppressed_warnings)

\* the options with deny_warnings flipped
FlipDeny(opts) == [opts EXCEPT !.deny_warnings = ~@]

\* C4: with deny_warnings every emitted diagnostic has error severity, without
\* it every emitted diagnostic keeps the severity it was stored with; and for
\* the order in which the map yielded its values, the run with deny_warnings
\* flipped emits the same diagnostics in the same order.
C4_DenyWarnings ==
    [][EmitStep =>
        /\ analysis_options.deny_warnings =>
            \A i \in 1..Len(emitted') : emitted'[i].level = "Error"
        /\ ~analysis_options.deny_warnings =>
            \A i \in 1..Len(emitted') :
                \E d \in StoredDiags(diagnostics_for) :
                    d.id = emitted'[i].id /\ d.level = emitted'[i].level
        /\ \E order \in IterationOrders(diagnostics_for) :
            /\ emitted' = EmitCalls(diagnostics_for, order, analysis_options)
            /\ Ids(emitted') =
                Ids(EmitCalls(diagnostics_for, order, FlipDeny(analysis_options)))]_vars

\* deny_warnings is set and two diagnostics stored as warnings were emitted
C4_Witness ==
    /\ phase = "emitted"
    /\ analysis_options.deny_warnings
    /\ Len(emitted) = 2
    /\ \A i \in 1..Len(created) : created[i].level = "Warning"

\* s is t with some elements left out
IsSubsequence(s, t) ==
    SelectSeq(t, LAMBDA d : \E i \in 1..Len(s) : s[i].id = d.id) = s

\* C5: the emitted diagnostics are in non-decreasing order of their primary
\* spans, and they are in the order the sorted vector had them: the filters
\* reorder nothing.
C5_EmittedInSpanOrder ==
    [][EmitStep =>
        /\ \A i, j \in 1..Len(emitted') :
            i < j => compare(emitted'[i], emitted'[j]) # "Greater"
        /\ \E order \in IterationOrders(diagnostics_for) :
            IsSubsequence(emitted',
                          SortedDiagnostics(diagnostics_for, order, analysis_options))]_vars

\* two diagnostics were emitted in the order of their spans, against the order
\* of their creation
C5_Witness ==
    /\ phase = "emitted"
    /\ Len(emitted) >= 2
    /\ compare(emitted[1], emitted[2]) = "Less"
    /\ emitted[1].id > emitted[2].id

\* C6: the sequence emit_diagnostics emits is the same for every order in which
\* the function-id-keyed map can yield its values.
C6_IndependentOfMapOrder ==
    [][EmitStep =>
        \A order \in IterationOrders(diagnostics_for) :
            emitted' = EmitCalls(diagnostics_for, order, analysis_options)]_vars

----------------------------------------------------------------------------
(* Properties of the conversion to DiagnosticCause (SpecCause) *)

\* the table of the conversion, by families of operators
ExpectedCause(kind) ==
    CASE kind[1] = "BoundsCheck" -> "Index"
      [] kind[1] = "Overflow" /\ kind[2] \in {"Add", "Sub", "Mul", "Div", "Rem",
                       "AddUnchecked", "SubUnchecked", "MulUnchecked"} -> "Arithmetic"
      [] kind[1] = "Overflow" /\ kind[2] \in {"Shl", "Shr", "ShlUnchecked", "ShrUnchecked",
                       "BitAnd", "BitOr", "BitXor"} -> "Bitwise"
      [] kind[1] = "Overflow" /\ kind[2] \in {"Eq", "Ne", "Lt", "Le", "Gt", "Ge", "Cmp"}
                       -> "Comparison"
      [] kind[1] = "Overflow" /\ kind[2] = "Offset" -> "Index"
      [] kind[1] \in {"DivisionByZero", "RemainderByZero"} -> "DivZero"
      [] kind[1] = "OverflowNeg" -> "Arithmetic"
      [] OTHER -> "Other"

\* C7: every assertion kind is converted, to the cause the table gives, and
\* never to Memory, Panic or Assembly.
C7_CauseTable ==
    /\ Len(causes) = Len(assert_kinds)
    /\ \A i \in 1..Len(assert_kinds) :
        /\ causes[i] = ExpectedCause(assert_kinds[i])
        /\ causes[i] \in DiagnosticCause \ {"Memory", "Panic", "Assembly"}

\* an Overflow of Offset and a kind of the default arm have been converted
C7_Witness ==
    /\ assert_kinds = <<<<"Overflow", "Offset">>, <<"ResumedAfterPanic">>>>
    /\ causes = <<"Index", "Other">>

----------------------------------------------------------------------------
(* Properties of the binary and the callbacks (SpecDriver) *)

\* GlobalContext::new was called and no analysis ran: the analyzer failed
AnalyzerFailed == context_news > runs

\* C8: the process exits with 1 when the compiler failed or the analyzer failed,
\* and with 0 otherwise.
C8_ExitCode ==
    pc = "exit" =>
        exit_code = Some(IF compiler_result = Some("Err") \/ AnalyzerFailed THEN 1 ELSE 0)

\* the substrings the specification lists
SkippedSubstrings == {LIBCORE, COMPILER_BUILTINS, LIBALLOC, LIBC, MACRO}

NamedToSkip(name) == \E pat \in SkippedSubstrings : str_contains(name, pat)

\* C9: with a source name that contains one of the listed substrings no
\* GlobalContext is constructed, no analysis runs and no diagnostic is emitted
\* or cancelled; with any other source name run_analysis calls GlobalContext::new.
C9_SkippedFiles ==
    /\ callbacks = "MirCheckerCallbacks" /\ NamedToSkip(source_name) =>
        /\ context_news = 0
        /\ runs = 0
        /\ emitted = <<>> /\ cancelled = <<>>
    /\ pc = "analysed" /\ ~NamedToSkip(source_name) => context_news = 1

\* after_analysis has returned for a source under /macros
C9_Witness ==
    /\ pc = "analysed"
    /\ str_contains(source_name, MACRO)
    /\ context_news = 0

\* the occurrences of flag in args
Occurrences(args, flag) == Cardinality({i \in 1..Len(args) : args[i] = flag})

\* C10: with MIR_CHECKER_BE_RUSTC set to 1 the binary adds neither forced flag,
\* parses no analyzer options, installs no analysis callbacks, and runs no
\* analysis; and once the compiler is started, the pass-through callbacks are
\* installed exactly when the variable is set, the analysis callbacks otherwise.
C10_PassThrough ==
    /\ env_var = Some("1") =>
        /\ callbacks # "MirCheckerCallbacks"
        /\ parsed_args = None
        /\ callback_options = None
        /\ IsSome(rustc_args) =>
            /\ Occurrences(Unwrap(rustc_args), ALWAYS_ENCODE_MIR)
                = Occurrences(raw_args, ALWAYS_ENCODE_MIR)
            /\ Occurrences(Unwrap(rustc_args), PANIC_ABORT)
                = Occurrences(raw_args, PANIC_ABORT)
        /\ context_news = 0 /\ runs = 0
        /\ emitted = <<>> /\ cancelled = <<>>
    /\ IsSome(rustc_args) =>
        /\ callbacks = "TimePassesCallbacks" <=> IsSome(env_var)
        /\ callbacks = "MirCheckerCallbacks" <=> ~IsSome(env_var)

\* a pass-through run has compiled and exited with 0
C10_Witness ==
    /\ env_var = Some("1")
    /\ pc = "exit"
    /\ callbacks = "TimePassesCallbacks"
    /\ exit_code = Some(EXIT_SUCCESS)

\* C11: in analyzer mode the argument list handed to from_args, and then to the
\* compiler, holds -Zalways_encode_mir and -Cpanic=abort; -Zalways_encode_mir
\* occurs as often as the user passed it, or once when the user did not.
C11_ForcedFlags ==
    callbacks = "MirCheckerCallbacks" =>
        /\ IsSome(parsed_args)
        /\ IsSome(rustc_args)
        /\ \A args \in {Unwrap(parsed_args), Unwrap(rustc_args)} :
            /\ HasArg(args, ALWAYS_ENCODE_MIR)
            /\ HasArg(args, PANIC_ABORT)
            /\ Occurrences(args, ALWAYS_ENCODE_MIR) =
                IF Occurrences(raw_args, ALWAYS_ENCODE_MIR) = 0
                THEN 1 ELSE Occurrences(raw_args, ALWAYS_ENCODE_MIR)

\* the analyzer was started although the user passed -Zalways_encode_mir
C11_Witness ==
    /\ callbacks = "MirCheckerCallbacks"
    /\ pc = "compiler"
    /\ HasArg(raw_args, ALWAYS_ENCODE_MIR)
    /\ Occurrences(Unwrap(parsed_args), ALWAYS_ENCODE_MIR) = 1

\* C12: run calls analyze_function exactly once, on the entry point of the
\* context, with the default abstract domain of the type that belongs to the
\* configured domain_type, for each of the seven domain types.
C12_DomainSelectedOnce ==
    /\ phase = "new" => analyze_calls = <<>>
    /\ phase # "new" =>
        /\ Len(analyze_calls) = 1
        /\ analyze_calls[1].def_id = entry_point
        /\ analyze_calls[1].value = "default"
        /\ analyze_calls[1].domain =
            CASE domain_type = "Interval" -> "ApronInterval"
              [] domain_type = "Octagon" -> "ApronOctagon"
              [] domain_type = "Polyhedra" -> "ApronPolyhedra"
              [] domain_type = "LinearEqualities" -> "ApronLinearEqualities"
              [] domain_type = "PplPolyhedra" -> "ApronPplPolyhedra"
              [] domain_type = "PplLinearCongruences" -> "ApronPplLinearCongruences"
              [] domain_type = "PkgridPolyhedraLinCongruences" ->
                    "ApronPkgridPolyhedraLinCongruences"

\* run has returned for the PplLinearCongruences domain and the entry point g
C12_Witness ==
    /\ IsSome(run_result)
    /\ domain_type = "PplLinearCongruences"
    /\ entry_point = "g"
    /\ Len(analyze_calls) = 1

\* C13: after_analysis returns Compilation::Continue in every case (file
\* skipped, GlobalContext::new failed, analysis run), and run returns
\* Ok(AnalysisInfo) however many diagnostics the analysis buffered.
C13_NeverAborts ==
    /\ pc = "analysed" => compilation = Some("Continue")
    /\ runs > 0 => run_result = Some("Ok")

\* after_analysis has returned after a run that buffered two diagnostics
C13_Witness ==
    /\ pc = "analysed"
    /\ runs = 1
    /\ Len(created) = 2
    /\ run_result = Some("Ok")
    /\ compilation = Some("Continue")

\* a type the place or the argument resolved to is known to the substitution
KnownParam(tv, par) ==
    \/ IsSome(tv.generic_arguments) /\ par[3] < Len(Unwrap(tv.generic_arguments))
    \/ par[2] = "Self" /\ tv.actual_argument_types # <<>>

\* C14: when the type of a place, or a generic argument, is a type parameter,
\* the result is its substitute; when the substitution does not know the
\* parameter the result is the unit type, never the parameter itself.
C14_UnknownParamIsUnit ==
    /\ (/\ IsSome(ty_call)
        /\ Unwrap(ty_call).fn = "get_rustc_place_type"
        /\ ResolvedPlaceType(Unwrap(type_visitor), Unwrap(ty_call).place) # Panic
        /\ Kind(ResolvedPlaceType(Unwrap(type_visitor), Unwrap(ty_call).place)) = "Param")
       => LET tv == Unwrap(type_visitor)
              par == ResolvedPlaceType(tv, Unwrap(ty_call).place)
          IN  /\ ty_result # Some(par)
              /\ ~KnownParam(tv, par) => ty_result = Some(Unit)
    /\ (/\ IsSome(ty_call)
        /\ Unwrap(ty_call).fn = "specialize_generic_argument_type"
        /\ Kind(Unwrap(ty_call).ty) = "Param"
        /\ IsSome(Unwrap(ty_call).map))
       => LET par == Unwrap(ty_call).ty
              map == Unwrap(Unwrap(ty_call).map)
          IN  ty_result = Some(IF par[2] \in DOMAIN map THEN map[par[2]] ELSE Unit)

\* C15: for a qualified path with the selector Deref whose qualifier has a
\* reference or raw pointer type, get_path_rustc_type returns the pointee type.
C15_DerefIsPointee ==
    (/\ IsSome(ty_call)
     /\ Unwrap(ty_call).fn = "get_path_rustc_type"
     /\ Unwrap(ty_call).path[1] = "QualifiedPath"
     /\ Unwrap(ty_call).path[3] = <<"Deref">>
     /\ Kind(get_path_rustc_type(Unwrap(type_visitor), Unwrap(ty_call).path[2]))
            \in {"Ref", "RawPtr"})
    => ty_result =
        Some(get_path_rustc_type(Unwrap(type_visitor), Unwrap(ty_call).path[2])[2])

\* a projection without its OpaqueCast and Subtype elements
RECURSIVE WithoutCasts(_)
WithoutCasts(projection) ==
    IF projection = <<>> THEN <<>>
    ELSE IF Head(projection)[1] \in {"OpaqueCast", "Subtype"}
         THEN WithoutCasts(Tail(projection))
         ELSE <<Head(projection)>> \o WithoutCasts(Tail(projection))

\* C16: get_type_for_projection_element treats OpaqueCast and Subtype as the
\* identity: a projection with such an element yields the type the projection
\* without it yields, and the call returns instead of aborting.
C16_CastsAreIdentity ==
    (/\ IsSome(ty_call)
     /\ Unwrap(ty_call).fn = "get_type_for_projection_element"
     /\ WithoutCasts(Unwrap(ty_call).projection) # Unwrap(ty_call).projection)
    => /\ ty_result # Some(Panic)
       /\ ty_result = Some(get_type_for_projection_element(
                            Unwrap(ty_call).base_ty, WithoutCasts(Unwrap(ty_call).projection)))

\* the name of the last TypeNs component among the first i components
RECURSIVE EnclosingTypeNs(_, _)
EnclosingTypeNs(def, i) ==
    IF i = 0 THEN None
    ELSE IF def.data[i].data[1] = "TypeNs" THEN Some(def.data[i].data[2])
         ELSE EnclosingTypeNs(def, i - 1)

\* what the key format says component i contributes: its name, and for a
\* non-zero disambiguator '_' and the disambiguator, or for an impl block
\* the enclosing type name or the mangled self type
KeyPiece(def, i) ==
    LET component == def.data[i]
        ns == EnclosingTypeNs(def, i)
    IN  push_component_name(component.data) \o
        (IF component.disambiguator = 0 THEN <<>>
         ELSE <<"_">> \o
              (IF component.data = Impl /\ IsSome(ns)
               THEN IF Unwrap(ns) = NUM /\ def.krate = CORE
                    THEN append_mangled_type(def.parent_ty)
                    ELSE Unwrap(ns)
               ELSE to_string(component.disambiguator)))

\* the crate name and the pieces of the components
KeySegments(def) ==
    <<def.krate>> \o [i \in 1..Len(def.data) |-> KeyPiece(def, i)]

\* the segments joined by single dots
RECURSIVE JoinDots(_)
JoinDots(segments) ==
    IF Len(segments) = 1 THEN segments[1]
    ELSE segments[1] \o <<".">> \o JoinDots(Tail(segments))

\* the key the format describes: the segments after the last one that ends in
\* foreign_contracts and has a successor, joined by dots
ExpectedKey(def) ==
    LET segments == KeySegments(def)
        stripped == {i \in 1..(Len(segments) - 1) : ends_with(segments[i], FOREIGN_CONTRACTS)}
        first == IF stripped = {} THEN 1
                 ELSE (CHOOSE i \in stripped : \A j \in stripped : j <= i) + 1
    IN  JoinDots(SubSeq(segments, first, Len(segments)))

\* C17: summary_key_str yields the crate name and the path components joined
\* by single dots, every component with a non-zero disambiguator followed by
\* '_' and the disambiguator (for an impl block the enclosing type name or the
\* mangled type); a prefix ending in foreign_contracts is stripped and the key
\* starts at the next component without a leading dot.
C17_KeyFormat ==
    (IsSome(util_call) /\ Unwrap(util_call).fn = "summary_key_str")
    => /\ util_result = Some(ExpectedKey(Unwrap(util_call).def))
       /\ Unwrap(util_result) # <<>> => Head(Unwrap(util_result)) # "."

\* the key of c::foreign_contracts::m#1::{impl#2} is m_1.implement_m
C17_Witness ==
    /\ IsSome(util_call)
    /\ Unwrap(util_call).fn = "summary_key_str"
    /\ Unwrap(util_call).def.krate = <<"c">>
    /\ Unwrap(util_call).def.data =
        <<Component(TypeNs(FOREIGN_CONTRACTS), 0), Component(TypeNs(<<"m">>), 1),
          Component(Impl, 2)>>
    /\ util_result = Some(<<"m", "_", "1", ".", "i", "m", "p", "l", "e", "m", "e", "n", "t", "_", "m">>)

\* no component of the definition is named foreign_contracts
NoForeignContracts(def) ==
    \A i \in 1..Len(def.data) : def.data[i].data # TypeNs(FOREIGN_CONTRACTS)

\* C18: two definitions with different definition paths never receive the
\* same key from summary_key_str, and one definition path always receives the
\* same key.
C18_KeyUnique ==
    (IsSome(util_call) /\ Unwrap(util_call).fn = "summary_key_str")
    => LET def == Unwrap(util_call).def
       IN  /\ util_result = Some(summary_key_str(def))
           /\ NoForeignContracts(def) =>
                \A other \in Defs :
                    (/\ NoForeignContracts(other)
                     /\ <<other.krate, other.data>> # <<def.krate, def.data>>)
                    => summary_key_str(other) # Unwrap(util_result)

\* the type holds a type parameter, a bound, inference or error type somewhere
RECURSIVE IsGeneric(_)
IsGeneric(ty) ==
    CASE Kind(ty) \in {"Bound", "Param", "Infer", "Error"} -> TRUE
      [] Kind(ty) \in {"Ref", "RawPtr", "Array", "Slice"} -> IsGeneric(ty[2])
      [] Kind(ty) \in {"Tuple", "FnPtr"} -> \E i \in 1..Len(ty[2]) : IsGeneric(ty[2][i])
      [] Kind(ty) \in {"Adt", "Closure", "FnDef"} ->
            \E i \in 1..Len(ty[3]) : ty[3][i][1] = "Type" /\ IsGeneric(ty[3][i][2])
      [] OTHER -> FALSE

\* C19: is_concrete returns false for every type that holds a type parameter,
\* bound, inference or error type at any depth, and are_concrete returns false
\* whenever one of the generic arguments is such a type.
C19_ConcreteOnly ==
    /\ (/\ IsSome(util_call)
        /\ Unwrap(util_call).fn = "is_concrete"
        /\ IsGeneric(Unwrap(util_call).ty))
       => util_result = Some(FALSE)
    /\ (/\ IsSome(util_call)
        /\ Unwrap(util_call).fn = "are_concrete"
        /\ \E i \in 1..Len(Unwrap(util_call).gen_args) :
              /\ Unwrap(util_call).gen_args[i][1] = "Type"
              /\ IsGeneric(Unwrap(util_call).gen_args[i][2]))
       => util_result = Some(FALSE)

\* the characters of an identifier
IdentifierChars ==
    {"a", "b", "c", "d", "e", "f", "g", "h", "i", "j", "k", "l", "m", "n", "o", "p", "q",
     "r", "s", "t", "u", "v", "w", "x", "y", "z", "S", "T", "_",
     "0", "1", "2", "3", "4", "5", "6", "7", "8", "9"}

\* C20: the string append_mangled_type appends consists of identifier
\* characters only, and no other type gets the same string.
C20_MangledUnique ==
    (IsSome(util_call) /\ Unwrap(util_call).fn = "append_mangled_type")
    => /\ \A i \in 1..Len(Unwrap(util_result)) : Unwrap(util_result)[i] \in IdentifierChars
       /\ \A other \in Types(MaxTyDepth) :
            other # Unwrap(util_call).ty => append_mangled_type(other) # Unwrap(util_result)

C22_PhaseOrder ==
    [][/\ (phase' # phase /\ phase' = "promoted") => phase = "iterator"
       /\ (phase' # phase /\ phase' = "fixpoint") => phase = "promoted"
       /\ (phase' # phase /\ phase' = "checked") => phase = "fixpoint"
       /\ (phase' # phase /\ phase' = "emitted") => phase = "checked"
       /\ (emitted' # emitted \/ cancelled' # cancelled) => phase = "checked"
       /\ phase \in {"new", "iterator", "promoted", "fixpoint"} =>
            emitted = <<>> /\ cancelled = <<>>]_vars

\* a run has gone through every phase and emitted a diagnostic
C22_Witness ==
    /\ phase = "emitted"
    /\ run_result = Some("Ok")
    /\ emitted # <<>>
    /\ Len(analyze_calls) = 1

\* a is lexicographically smaller than b: they agree on a prefix after which
\* a ends and b does not, or a has the smaller span
LexSmaller(a, b) ==
    \E k \in 0..Len(a) :
        /\ k <= Len(b)
        /\ \A i \in 1..k : a[i] = b[i]
        /\ \/ k = Len(a) /\ k < Len(b)
           \/ k < Len(a) /\ k < Len(b) /\ a[k + 1] < b[k + 1]

\* C23: compare is a total order on primary span sequences: compare(x, y) is
\* Less exactly when compare(y, x) is Greater, it is Equal exactly when neither
\* sequence is lexicographically smaller than the other, and it is transitive.
C23_CompareTotalOrder ==
    IsSome(cmp_result) =>
        LET r == Unwrap(cmp_result)
            x == Unwrap(cmp_args)[1]
            y == Unwrap(cmp_args)[2]
        IN /\ r.xy \in {"Less", "Equal", "Greater"}
           /\ (r.xy = "Less") <=> (r.yx = "Greater")
           /\ (r.xy = "Less") <=> LexSmaller(x.span, y.span)
           /\ (r.xy = "Equal") <=>
                (~LexSmaller(x.span, y.span) /\ ~LexSmaller(y.span, x.span))
           /\ (r.xy = "Less" /\ r.yz = "Less") => r.xz = "Less"
           /\ (r.xy = "Equal" /\ r.yz = "Equal") => r.xz = "Equal"
           /\ (r.xy # "Greater" /\ r.yz # "Greater") => r.xz # "Greater"

\* compare ordered a proper prefix before its extension, and that before a
\* sequence with a larger first span
C23_Witness ==
    /\ IsSome(cmp_result)
    /\ Unwrap(cmp_args)[1].span = <<1>>
    /\ Unwrap(cmp_args)[2].span = <<1, 2>>
    /\ Unwrap(cmp_args)[3].span = <<2>>
    /\ Unwrap(cmp_result) = [xy |-> "Less", yx |-> "Greater", yz |-> "Less", xz |-> "Less"]

\* C24: get_path_rustc_type returns a type for every path and never aborts,
\* the ordinal 0 and ordinals beyond the declared locals included; for a
\* Parameter path with 1 <= ordinal <= number of actual argument types it
\* returns the actual argument type at position ordinal - 1.
C24_PathTypeTotal ==
    (IsSome(ty_call) /\ Unwrap(ty_call).fn = "get_path_rustc_type")
    => LET tv == Unwrap(type_visitor)
           path == Unwrap(ty_call).path
       IN /\ ty_result # Some(Panic)
          /\ (/\ path[1] = "Parameter"
              /\ 1 <= path[2]
              /\ path[2] <= Len(tv.actual_argument_types))
             => ty_result = Some(tv.actual_argument_types[path[2]])

\* the projection element a path selector corresponds to
ProjectionOf(selector) == <<selector[1]>>

\* C25: for a qualified path with the selector Deref or Index,
\* get_path_rustc_type returns the type get_type_for_projection_element
\* computes for the corresponding projection element on the qualifier's type.
C25_ResolversAgree ==
    (/\ IsSome(ty_call)
     /\ Unwrap(ty_call).fn = "get_path_rustc_type"
     /\ Unwrap(ty_call).path[1] = "QualifiedPath"
     /\ Unwrap(ty_call).path[3][1] \in {"Deref", "Index"}
     /\ get_path_rustc_type(Unwrap(type_visitor), Unwrap(ty_call).path[2]) # Panic)
    => ty_result =
        Some(get_type_for_projection_element(
                get_path_rustc_type(Unwrap(type_visitor), Unwrap(ty_call).path[2]),
                <<ProjectionOf(Unwrap(ty_call).path[3])>>))

\* a type parameter with one of the names occurs in ty, at any depth
RECURSIVE ParamOccurs(_, _)
ParamOccurs(ty, names) ==
    CASE Kind(ty) = "Param" -> ty[2] \in names
      [] Kind(ty) \in {"Ref", "RawPtr", "Array", "Slice"} -> ParamOccurs(ty[2], names)
      [] Kind(ty) \in {"Tuple", "FnPtr"} ->
            \E i \in 1..Len(ty[2]) : ParamOccurs(ty[2][i], names)
      [] Kind(ty) \in {"Adt", "Closure", "FnDef"} ->
            \E i \in 1..Len(ty[3]) : ty[3][i][1] = "Type" /\ ParamOccurs(ty[3][i][2], names)
      [] OTHER -> FALSE

\* C26: specialize_generic_argument_type returns its argument when no map is
\* given; with a map its result holds no type parameter the map binds, at any
\* depth, the generic arguments of an ADT included, and specialising the
\* result again with the same map changes nothing.
C26_SpecializeSubstitutesAll ==
    (IsSome(ty_call) /\ Unwrap(ty_call).fn = "specialize_generic_argument_type")
    => LET ty == Unwrap(ty_call).ty
           map == Unwrap(ty_call).map
           result == Unwrap(ty_result)
       IN IF map = None
          THEN result = ty
          ELSE /\ ~ParamOccurs(result, DOMAIN Unwrap(map))
               /\ specialize_generic_argument_type(result, map) = result

====
